---- MODULE Spec2Model ----
(***************************************************************************)
(* Planner pipeline of LLM-for-SE: PlannerAgent.create_plan drives the     *)
(* graph built by build_planner_graph (planner/pipeline.py): five phase    *)
(* nodes, the routing function should_refine, and the consolidation node.  *)
(* The run state is the AgentState dict that every node mutates and        *)
(* returns and that should_refine updates in place, as the code is         *)
(* written.                                                                *)
(***************************************************************************)
EXTENDS Integers, Sequences, FiniteSets, TLC

(* ------------------------------ bounds --------------------------------- *)
\* longest "issues" list a review may carry
MaxIssues == 1
\* undecodable responses the language model gives in one run
MaxParseFailures == 1

(* ------------------------- program constants --------------------------- *)
\* config.max_retries
max_retries == 2
\* iteration ceiling of should_refine
MaxIterations == 2
\* approval threshold on completeness_score stated by the specification
ApprovalThreshold == 6

(* ------------------------- JSON-like values ---------------------------- *)
\* Python None
None == [kind |-> "None"]

\* a JSON object whose fields have the types the prompts ask for
PlainObj == [kind |-> "obj"]
\* a non-empty JSON array: decodes, but is not a dict
PlainArr == [kind |-> "arr"]

IssueKinds == {"critical", "nokeys"}
\* "nokeys": an issue object without severity/description/recommendation

RECURSIVE SeqsUpTo(_, _)
SeqsUpTo(S, n) ==
    IF n = 0 THEN {<< >>}
    ELSE LET shorter == SeqsUpTo(S, n - 1)
         IN  shorter \cup {Append(s, x) : s \in {t \in shorter : Len(t) = n - 1}, x \in S}

IssueLists == SeqsUpTo(IssueKinds, MaxIssues)

ApprovalStatuses == {"approved", "needs_revision"}
Scores == {5, 9}
ValidPhases == {"requirements_engineering", "architecture_design", "implementation_planning"}
RetryPhases == ValidPhases \cup {"consolidation"}

\* the JSON objects a quality review response can decode to
ReviewObjs ==
    [kind : {"obj"}, approval_status : ApprovalStatuses, completeness_score : Scores,
     issues : IssueLists, retry_phase : RetryPhases]

\* what the text of a response looks like
\*   bare   : the text is exactly one JSON value
\*   tagged : <thinking>..</thinking><output>JSON</output>
\*   prose  : no JSON anywhere in the text
Prose == [fmt |-> "prose", val |-> None]
\* no call_llm has returned yet
NoResponse == [fmt |-> "none", val |-> None]

\* responses to the four planning prompts and to the review prompt
PlainResponses ==
    {[fmt |-> "bare", val |-> PlainObj], [fmt |-> "tagged", val |-> PlainObj],
     [fmt |-> "bare", val |-> PlainArr], Prose}
ReviewResponses == [fmt : {"tagged"}, val : ReviewObjs \cup {PlainArr}] \cup {Prose}

\* the empty JSON object, a non-zero JSON number
EmptyObj == [kind |-> "emptyobj"]
NumVal == [kind |-> "num"]
\* a JSON object in which one field that a digest reads is absent, null, or a
\* number instead of the list, object or string the prompt asks for
Fields == {"intent", "functional", "edge_cases", "non_functional", "performance",
           "components", "component", "name", "design_pattern", "steps",
           "implementation_order"}
Defects == {"missing", "null", "number"}
BadObjs == [kind : {"badobj"}, field : Fields, defect : Defects]

IsDict(v) == v.kind \in {"obj", "sentinel", "emptyobj", "badobj"}
Truthy(v) == v.kind \notin {"None", "emptyobj"}


(* ------------------------------ helpers -------------------------------- *)
\* the error sentinel a node stores when decoding fails
Sentinel(r) == [kind |-> "sentinel", raw_response |-> r, error |-> "JSONDecodeError"]

\* llm.py get_model_profile: only compress_context steers the pipeline
get_model_profile(m) ==
    [compress_context |-> (m \in {"mistral", "qwen2.5-coder:7b-instruct"})]

Models == {"mistral", "llama3.1:70b"}

\* json.loads(response): strict decoding of the whole text
json_loads(r) ==
    IF r.fmt = "bare" THEN [ok |-> TRUE, val |-> r.val]
    ELSE [ok |-> FALSE, val |-> None]

\* llm.py extract_and_parse_json on the three shapes of text: <output> tags
\* (attempt 1) or the raw text; a text without JSON fails every attempt
extract_and_parse_json(r) ==
    IF r.fmt \in {"bare", "tagged"} THEN [ok |-> TRUE, val |-> r.val]
    ELSE [ok |-> FALSE, val |-> None]

\* what one transport attempt (ollama.chat) can do
AttemptOutcomes == {"ResponseError", "RequestError", "empty", "ok"}
AttemptTraces == [1 .. (max_retries + 1) -> AttemptOutcomes]

\* llm.py call_llm: attempts 0..max_retries, first usable content returned,
\* the exception of the last attempt re-raised as RuntimeError/ConnectionError
call_llm(tr, r) ==
    LET oks == {i \in DOMAIN tr : tr[i] = "ok"}
        first == CHOOSE i \in oks : \A j \in oks : i <= j
        last == tr[max_retries + 1]
    IN  IF oks # {}
        THEN [exc |-> "none", response |-> r, attempts |-> first]
        ELSE [exc |-> IF last = "RequestError" THEN "ConnectionError" ELSE "RuntimeError",
              response |-> NoResponse, attempts |-> max_retries + 1]

\* what the caller of call_llm sees: the content returned or the exception raised
Returned(c) == [exc |-> c.exc, response |-> c.response]

PlainResults == {Returned(call_llm(tr, r)) : tr \in AttemptTraces, r \in PlainResponses}
ReviewResults == {Returned(call_llm(tr, r)) : tr \in AttemptTraces, r \in ReviewResponses}

\* llm.py compress_phase_output, lines 119-144: the exception the digest of
\* phase_name raises on an object whose field has the defect; an absent field
\* takes the default of .get
FieldExc(phase_name, field, defect) ==
    IF defect = "missing" THEN "none"
    ELSE CASE phase_name = "requirements" ->
                IF field \in {"functional", "edge_cases"} THEN "TypeError"
                ELSE IF field \in {"non_functional", "performance"} THEN "AttributeError"
                ELSE "none"
           [] phase_name = "architecture" ->
                IF field \in {"components", "name", "design_pattern"} THEN "TypeError"
                ELSE IF field = "component" THEN "AttributeError"
                ELSE "none"
           [] phase_name = "implementation" ->
                IF field \in {"components", "steps", "implementation_order"} THEN "TypeError"
                ELSE IF field = "component" THEN "AttributeError"
                ELSE "none"
           [] OTHER -> "none"

\* llm.py compress_phase_output: exc is the exception it raises, if any
compress_phase_output(phase_name, phase_data) ==
    IF ~Truthy(phase_data)
    THEN [exc |-> "none", text |-> "Error or empty"]
    ELSE IF phase_data.kind = "num"
    THEN [exc |-> "TypeError", text |-> ""]
    ELSE IF phase_data.kind = "sentinel"
    THEN [exc |-> "none", text |-> "Error or empty"]
    ELSE IF phase_name \in {"intent_analysis", "requirements", "architecture", "implementation"}
         THEN IF ~IsDict(phase_data)
              THEN [exc |-> "AttributeError", text |-> ""]
              ELSE IF phase_data.kind = "badobj"
                      /\ FieldExc(phase_name, phase_data.field, phase_data.defect) # "none"
              THEN [exc |-> FieldExc(phase_name, phase_data.field, phase_data.defect),
                    text |-> ""]
              ELSE [exc |-> "none", text |-> "digest"]
         ELSE [exc |-> "none", text |-> "Available"]

\* the context summary a node builds from an earlier phase: compressed for
\* small models, json.dumps otherwise
Summary(m, phase_name, phase_data) ==
    IF get_model_profile(m).compress_context
    THEN compress_phase_output(phase_name, phase_data)
    ELSE [exc |-> "none", text |-> "json"]

\* dict.get("issues", []) of the stored review
IssuesOf(review) == IF review.kind = "obj" THEN review.issues ELSE << >>

\* first n elements of a sequence (Python s[:n])
Take(s, n) == SubSeq(s, 1, IF Len(s) < n THEN Len(s) ELSE n)

\* the nodes build_planner_graph adds to the graph
Nodes == {"intent_analysis", "requirements_engineering", "architecture_design",
          "implementation_planning", "quality_review", "consolidation"}

(* ------------------------------- state --------------------------------- *)
VARIABLES
    pc,                 \* node about to run, "should_refine", "END" or "raised"
    task_id, user_request, model, show_node_info,
    intent_analysis, requirements, architecture, implementation_plan, quality_review,
    final_plan, plan_approved, iteration_count, errors,
    exception,          \* exception that escaped the graph ("none" if none)
    response,           \* text the last call_llm returned
    llm_calls,          \* invocations of call_llm so far
    llm_failures,       \* invocations of call_llm that raised
    runs,               \* how many times each node has been entered
    gate_evals,         \* evaluations of should_refine so far
    retries             \* evaluations of should_refine that routed back to a phase

\* the functions and the coder agent that are exercised on their own
VARIABLES
    text,               \* argument of extract_and_parse_json, symbol by symbol
    payload_text,       \* the JSON document the text was built around
    shape,              \* how the text was built: "tagged", "trailing", "prose"
    parse_result,       \* what extract_and_parse_json gave
    name_arg, data_arg,         \* arguments of compress_phase_output
    compressed,         \* what compress_phase_output gave
    impl,               \* which call_llm runs: "planner" or "core"
    attempt,            \* loop variable of call_llm
    outcomes,           \* what each ollama.chat so far did
    call_state,         \* "idle", "running", "returned" or "raised"
    call_exc,           \* the exception call_llm raised
    coder_pc,           \* node of the coder graph about to run
    coder,              \* the CoderAgentState dict
    coder_result        \* the dict generate_code returns

\* a second create_plan call in progress next to the one the planner variables
\* describe
VARIABLES
    suspended,          \* the state dict and position of the call that is not running
    active              \* which of the two calls the planner variables describe

\* the refinement loop of the single-agent pipeline, the legacy multi-agent
\* graph, the critic agent and the coder-critic loop of the scripts
VARIABLES
    scr,                \* arguments and result of should_continue_refining
    refine_pc,          \* position inside refinement_node
    refine,             \* the AgentState dict refinement_node works on
    refine_entry,       \* that dict as refinement_node received it
    refine_steps,       \* refine-and-evaluate steps refinement_node has made
    graph_pc,           \* node of the legacy graph about to run
    graph,              \* the state dict of the legacy graph
    coder_runs,         \* executions of coder_node so far
    critic_runs,        \* executions of critic_node so far
    critic_pc,          \* node of the critic graph about to run
    critic,             \* the CriticAgentState dict
    critique_result,    \* what CriticAgent.critique returned or raised
    driver_pc,          \* position inside run_task_multi_agent
    driver              \* the local variables of run_task_multi_agent

inputs == <<task_id, user_request, model, show_node_info>>
slots == <<intent_analysis, requirements, architecture, implementation_plan, quality_review>>
parser_vars == <<text, payload_text, shape, parse_result>>
compress_vars == <<name_arg, data_arg, compressed>>
call_vars == <<impl, attempt, outcomes, call_state, call_exc>>
coder_vars == <<coder_pc, coder, coder_result>>
other_run == <<suspended, active>>
refine_vars == <<scr, refine_pc, refine, refine_entry, refine_steps>>
graph_vars == <<graph_pc, graph, coder_runs, critic_runs>>
critic_vars == <<critic_pc, critic, critique_result>>
driver_vars == <<driver_pc, driver>>
loops_vars == <<refine_vars, graph_vars, critic_vars, driver_vars>>
units == <<parser_vars, compress_vars, call_vars, coder_vars, other_run, loops_vars>>
planner_vars == <<pc, inputs, slots, final_plan, plan_approved, iteration_count, errors,
                  exception, response, llm_calls, llm_failures, runs,
                  gate_evals, retries>>
vars == <<planner_vars, units>>

\* nothing has been handed to extract_and_parse_json
NotParsed == [done |-> FALSE, ok |-> FALSE, val |-> None]
ParserIdle ==
    /\ text = << >>
    /\ payload_text = << >>
    /\ shape = "none"
    /\ parse_result = NotParsed

NotCompressed == [done |-> FALSE, exc |-> "none", text |-> ""]
CompressIdle ==
    /\ name_arg = "none"
    /\ data_arg = None
    /\ compressed = NotCompressed

CallIdle ==
    /\ impl = "none"
    /\ attempt = 0
    /\ outcomes = << >>
    /\ call_state = "idle"
    /\ call_exc = "none"

CoderIdle ==
    /\ coder_pc = "idle"
    /\ coder = None
    /\ coder_result = None

RefineIdle ==
    /\ scr = None
    /\ refine_pc = "idle"
    /\ refine = None
    /\ refine_entry = None
    /\ refine_steps = 0

GraphIdle ==
    /\ graph_pc = "idle"
    /\ graph = None
    /\ coder_runs = 0
    /\ critic_runs = 0

CriticIdle ==
    /\ critic_pc = "idle"
    /\ critic = None
    /\ critique_result = None

DriverIdle ==
    /\ driver_pc = "idle"
    /\ driver = None

LoopsIdle == RefineIdle /\ GraphIdle /\ CriticIdle /\ DriverIdle

\* there is one create_plan call only
SingleRun ==
    /\ suspended = None
    /\ active = 1

TaskIds == {"task_001"}
UserRequests == {"count vowels"}

\* agent.py create_plan: the initial state handed to graph.invoke
Init ==
    /\ pc = "intent_analysis"
    /\ task_id \in TaskIds
    /\ user_request \in UserRequests
    /\ model \in Models
    /\ show_node_info \in BOOLEAN
    /\ intent_analysis = None
    /\ requirements = None
    /\ architecture = None
    /\ implementation_plan = None
    /\ quality_review = None
    /\ final_plan = None
    /\ plan_approved = "None"
    /\ iteration_count = 0
    /\ errors = << >>
    /\ exception = "none"
    /\ response = NoResponse
    /\ llm_calls = 0
    /\ llm_failures = 0
    /\ runs = [n \in Nodes |-> 0]
    /\ gate_evals = 0
    /\ retries = 0
    /\ ParserIdle /\ CompressIdle /\ CallIdle /\ CoderIdle /\ LoopsIdle
    /\ SingleRun

\* bookkeeping of one node execution: res is what its call_llm gave
Called(node, res) ==
    /\ runs' = [runs EXCEPT ![node] = @ + 1]
    /\ llm_calls' = llm_calls + 1
    /\ llm_failures' = IF res.exc # "none" THEN llm_failures + 1 ELSE llm_failures
    /\ response' = IF res.exc # "none" THEN response ELSE res.response

\* agent.py create_plan, except branch: the exception leaves graph.invoke and
\* create_plan raises RuntimeError("Planning failed: ...") from it
Raise(exc) ==
    /\ pc' = "raised"
    /\ exception' = exc
    /\ UNCHANGED <<units, inputs, slots, final_plan, plan_approved, iteration_count, errors,
                   gate_evals, retries>>

\* an exception while the node builds its prompt, before any call_llm
RaiseInPrompt(node, exc) ==
    /\ Raise(exc)
    /\ runs' = [runs EXCEPT ![node] = @ + 1]
    /\ UNCHANGED <<response, llm_calls, llm_failures>>

\* the decoder a node applies to its response
Decode(decoder, r) ==
    IF decoder = "json.loads" THEN json_loads(r) ELSE extract_and_parse_json(r)

\* the results call_llm can give a node: the language model gives at most
\* MaxParseFailures responses that the node's decoder rejects
Admitted(results, decoder, errs) ==
    {x \in results : \/ x.exc # "none"
                     \/ Decode(decoder, x.response).ok
                     \/ Len(errs) < MaxParseFailures}

\* a phase node that starts a fresh errors list whenever its response decodes
PhaseOutcome_clears_errors(res, parsed, verbose, errs, label) ==
    IF res.exc # "none"
    THEN [exc |-> res.exc, value |-> None, errs |-> errs]
    ELSE IF parsed.ok
         THEN IF verbose /\ ~IsDict(parsed.val)
              THEN [exc |-> "AttributeError", value |-> parsed.val, errs |-> errs]
              ELSE [exc |-> "none", value |-> parsed.val, errs |-> << >>]
         ELSE [exc |-> "none", value |-> Sentinel(res.response), errs |-> Append(errs, label)]

\* a phase node whose except clause catches every exception of the call
PhaseOutcome_catch_all(res, parsed, verbose, errs, label) ==
    IF res.exc # "none" \/ ~parsed.ok
    THEN [exc |-> "none", value |-> Sentinel(res.response), errs |-> Append(errs, label)]
    ELSE [exc |-> "none", value |-> parsed.val, errs |-> errs]

\* a phase node that stores the sentinel but records no diagnostic
PhaseOutcome_no_diagnostic(res, parsed, verbose, errs, label) ==
    IF res.exc # "none"
    THEN [exc |-> res.exc, value |-> None, errs |-> errs]
    ELSE IF parsed.ok
         THEN IF verbose /\ ~IsDict(parsed.val)
              THEN [exc |-> "AttributeError", value |-> parsed.val, errs |-> errs]
              ELSE [exc |-> "none", value |-> parsed.val, errs |-> errs]
         ELSE [exc |-> "none", value |-> Sentinel(res.response), errs |-> errs]

\* the try/except around the parse in every phase node: the decoded value is
\* stored (and printed when show_node_info), a JSONDecodeError becomes the
\* sentinel {"raw_response", "error"} plus one entry in errors; anything else
\* (call_llm's exception, .get on a non-dict) is not caught
PhaseOutcome(res, parsed, verbose, errs, label) ==
    IF res.exc # "none"
    THEN [exc |-> res.exc, value |-> None, errs |-> errs]
    ELSE IF parsed.ok
         THEN IF verbose /\ ~IsDict(parsed.val)
              THEN [exc |-> "AttributeError", value |-> parsed.val, errs |-> errs]
              ELSE [exc |-> "none", value |-> parsed.val, errs |-> errs]
         ELSE [exc |-> "none", value |-> Sentinel(res.response), errs |-> Append(errs, label)]

\* pipeline.py intent_analysis_node, the language model answering from results
intent_analysis_step(results) ==
    /\ pc = "intent_analysis"
    /\ \E res \in Admitted(results, "extract_and_parse_json", errors) :
         LET out == PhaseOutcome(res, extract_and_parse_json(res.response),
                                 show_node_info, errors, "Intent analysis JSON parse failed")
         IN  /\ Called("intent_analysis", res)
             /\ IF out.exc # "none"
                THEN Raise(out.exc)
                ELSE /\ intent_analysis' = out.value
                     /\ errors' = out.errs
                     /\ pc' = "requirements_engineering"
                     /\ UNCHANGED <<units, inputs, requirements, architecture, implementation_plan,
                                    quality_review, final_plan, plan_approved, iteration_count,
                                    exception, gate_evals, retries>>

\* pipeline.py requirements_engineering_node
requirements_engineering_step(results) ==
    /\ pc = "requirements_engineering"
    /\ LET summary == Summary(model, "intent_analysis", intent_analysis)
       IN  IF summary.exc # "none"
           THEN RaiseInPrompt("requirements_engineering", summary.exc)
           ELSE \E res \in Admitted(results, "extract_and_parse_json", errors) :
                  LET out == PhaseOutcome(res, extract_and_parse_json(res.response),
                                          show_node_info, errors, "Requirements JSON parse failed")
                  IN  /\ Called("requirements_engineering", res)
                      /\ IF out.exc # "none"
                         THEN Raise(out.exc)
                         ELSE /\ requirements' = out.value
                              /\ errors' = out.errs
                              /\ pc' = "architecture_design"
                              /\ UNCHANGED <<units, inputs, intent_analysis, architecture,
                                             implementation_plan, quality_review, final_plan,
                                             plan_approved, iteration_count, exception,
                                             gate_evals, retries>>

\* pipeline.py architecture_design_node, feedback_section: the issues of the
\* stored review are formatted with i['severity'], i['description'],
\* i['recommendation'] when this is a refinement iteration
FeedbackIssues(review, count) ==
    IF Truthy(review) /\ count > 0 THEN Take(IssuesOf(review), 5) ELSE << >>

FeedbackExc(issues) ==
    IF \E k \in DOMAIN issues : issues[k] = "nokeys" THEN "KeyError" ELSE "none"

\* an architecture_design_node that also discards the implementation plan
architecture_design_step_resets_plan(results) ==
    /\ pc = "architecture_design"
    /\ LET summary == Summary(model, "requirements", requirements)
           issues == FeedbackIssues(quality_review, iteration_count)
       IN  IF summary.exc # "none"
           THEN RaiseInPrompt("architecture_design", summary.exc)
           ELSE IF FeedbackExc(issues) # "none"
           THEN RaiseInPrompt("architecture_design", FeedbackExc(issues))
           ELSE \E res \in Admitted(results, "json.loads", errors) :
                  LET out == PhaseOutcome(res, json_loads(res.response),
                                          show_node_info, errors, "Architecture JSON parse failed")
                  IN  /\ Called("architecture_design", res)
                      /\ IF out.exc # "none"
                         THEN Raise(out.exc)
                         ELSE /\ architecture' = out.value
                              /\ errors' = out.errs
                              /\ pc' = "implementation_planning"
                              /\ implementation_plan' = None
                              /\ UNCHANGED <<units, inputs, intent_analysis, requirements,
                                             quality_review, final_plan,
                                             plan_approved, iteration_count, exception,
                                             gate_evals, retries>>

\* pipeline.py architecture_design_node: the only node that decodes its
\* response with json.loads
architecture_design_step(results) ==
    /\ pc = "architecture_design"
    /\ LET summary == Summary(model, "requirements", requirements)
           issues == FeedbackIssues(quality_review, iteration_count)
       IN  IF summary.exc # "none"
           THEN RaiseInPrompt("architecture_design", summary.exc)
           ELSE IF FeedbackExc(issues) # "none"
           THEN RaiseInPrompt("architecture_design", FeedbackExc(issues))
           ELSE \E res \in Admitted(results, "json.loads", errors) :
                  LET out == PhaseOutcome(res, json_loads(res.response),
                                          show_node_info, errors, "Architecture JSON parse failed")
                  IN  /\ Called("architecture_design", res)
                      /\ IF out.exc # "none"
                         THEN Raise(out.exc)
                         ELSE /\ architecture' = out.value
                              /\ errors' = out.errs
                              /\ pc' = "implementation_planning"
                              /\ UNCHANGED <<units, inputs, intent_analysis, requirements,
                                             implementation_plan, quality_review, final_plan,
                                             plan_approved, iteration_count, exception,
                                             gate_evals, retries>>

\* pipeline.py implementation_planning_node
implementation_planning_step(results) ==
    /\ pc = "implementation_planning"
    /\ LET summary == Summary(model, "architecture", architecture)
       IN  IF summary.exc # "none"
           THEN RaiseInPrompt("implementation_planning", summary.exc)
           ELSE \E res \in Admitted(results, "extract_and_parse_json", errors) :
                  LET out == PhaseOutcome(res, extract_and_parse_json(res.response), show_node_info,
                                          errors, "Implementation plan JSON parse failed")
                  IN  /\ Called("implementation_planning", res)
                      /\ IF out.exc # "none"
                         THEN Raise(out.exc)
                         ELSE /\ implementation_plan' = out.value
                              /\ errors' = out.errs
                              /\ pc' = "quality_review"
                              /\ UNCHANGED <<units, inputs, intent_analysis, requirements, architecture,
                                             quality_review, final_plan, plan_approved,
                                             iteration_count, exception, gate_evals,
                                             retries>>

\* the comparison with "approved" inverted
Approval_inverted(review) ==
    IF review.approval_status # "approved" THEN "True" ELSE "False"

\* pipeline.py quality_review_node, line 433: the review's own verdict decides
Approval(review) ==
    IF review.approval_status = "approved" THEN "True" ELSE "False"

\* pipeline.py quality_review_node, lines 426-431: the verbose listing slices
\* issue.get('description') of the first three issues
VerboseReviewExc(review) ==
    IF \E k \in DOMAIN Take(review.issues, 3) : review.issues[k] = "nokeys"
    THEN "TypeError" ELSE "none"

\* the four summaries of the review prompt, in the order they are built
ReviewPromptExc(m, ia, rq, ar, ip) ==
    LET excs == << Summary(m, "intent_analysis", ia).exc, Summary(m, "requirements", rq).exc,
                   Summary(m, "architecture", ar).exc, Summary(m, "implementation", ip).exc >>
        bad == {k \in 1 .. 4 : excs[k] # "none"}
    IN  IF bad = {} THEN "none" ELSE excs[CHOOSE k \in bad : \A j \in bad : k <= j]

\* pipeline.py quality_review_node, lines 418-443: what the node does with the
\* result of its call_llm
ReviewOutcome(res, parsed, verbose, errs) ==
    IF res.exc # "none"
    THEN [exc |-> res.exc, value |-> None, approved |-> "None", errs |-> errs]
    ELSE IF parsed.ok
         THEN IF ~IsDict(parsed.val)
              THEN [exc |-> "AttributeError", value |-> parsed.val, approved |-> "None",
                    errs |-> errs]
              ELSE IF verbose /\ VerboseReviewExc(parsed.val) # "none"
              THEN [exc |-> VerboseReviewExc(parsed.val), value |-> parsed.val,
                    approved |-> "None", errs |-> errs]
              ELSE [exc |-> "none", value |-> parsed.val, approved |-> Approval(parsed.val),
                    errs |-> errs]
         ELSE [exc |-> "none", value |-> Sentinel(res.response), approved |-> "False",
               errs |-> Append(errs, "Quality review JSON parse failed")]

\* pipeline.py quality_review_node
quality_review_step(results) ==
    /\ pc = "quality_review"
    /\ LET pexc == ReviewPromptExc(model, intent_analysis, requirements, architecture,
                                   implementation_plan)
       IN  IF pexc # "none"
           THEN RaiseInPrompt("quality_review", pexc)
           ELSE \E res \in Admitted(results, "extract_and_parse_json", errors) :
                  LET out == ReviewOutcome(res, extract_and_parse_json(res.response),
                                           show_node_info, errors)
                  IN  /\ Called("quality_review", res)
                      /\ IF out.exc # "none"
                         THEN Raise(out.exc)
                         ELSE /\ quality_review' = out.value
                              /\ plan_approved' = out.approved
                              /\ errors' = out.errs
                              /\ pc' = "should_refine"
                              /\ UNCHANGED <<units, inputs, intent_analysis, requirements, architecture,
                                             implementation_plan, final_plan, iteration_count,
                                             exception, gate_evals, retries>>

\* should_refine that sends an invalid retry_phase back to the review alone
RetryTarget_review_only(review) ==
    LET named == IF review.kind = "obj" THEN review.retry_phase ELSE "architecture_design"
    IN  IF named \in ValidPhases THEN named ELSE "quality_review"

\* should_refine whose fallback restarts the whole chain
RetryTarget_from_intent(review) ==
    LET named == IF review.kind = "obj" THEN review.retry_phase ELSE "architecture_design"
    IN  IF named \in ValidPhases THEN named ELSE "intent_analysis"

\* should_refine without the validation of retry_phase
RetryTarget_unchecked(review) ==
    IF review.kind = "obj" THEN review.retry_phase ELSE "architecture_design"

\* pipeline.py should_refine, lines 505-511: quality_review.get("retry_phase",
\* "architecture_design"), replaced by "architecture_design" unless valid
RetryTarget(review) ==
    LET named == IF review.kind = "obj" THEN review.retry_phase ELSE "architecture_design"
    IN  IF named \in ValidPhases THEN named ELSE "architecture_design"

\* should_refine that retries below the ceiling whatever the verdict
Route_ignores_approval(approved, count, review) ==
    IF count < MaxIterations
    THEN [next |-> RetryTarget(review), iteration_count |-> count + 1]
    ELSE [next |-> "consolidation", iteration_count |-> count]

\* should_refine that also counts the evaluation at the ceiling
Route_counts_at_ceiling(approved, count, review) ==
    IF approved = "True"
    THEN [next |-> "consolidation", iteration_count |-> count]
    ELSE IF count < MaxIterations
         THEN [next |-> RetryTarget(review), iteration_count |-> count + 1]
         ELSE [next |-> "consolidation", iteration_count |-> count + 1]

\* should_refine that forgets to store the incremented counter
Route_no_increment(approved, count, review) ==
    IF approved = "True"
    THEN [next |-> "consolidation", iteration_count |-> count]
    ELSE IF count < MaxIterations
         THEN [next |-> RetryTarget(review), iteration_count |-> count]
         ELSE [next |-> "consolidation", iteration_count |-> count]

\* should_refine with the ceiling test off by one (<= instead of <)
Route_off_by_one(approved, count, review) ==
    IF approved = "True"
    THEN [next |-> "consolidation", iteration_count |-> count]
    ELSE IF count <= MaxIterations
         THEN [next |-> RetryTarget(review), iteration_count |-> count + 1]
         ELSE [next |-> "consolidation", iteration_count |-> count]

\* pipeline.py should_refine: the node it returns and the iteration_count it
\* leaves in the state
Route(approved, count, review) ==
    IF approved = "True"
    THEN [next |-> "consolidation", iteration_count |-> count]
    ELSE IF count < MaxIterations
         THEN [next |-> RetryTarget(review), iteration_count |-> count + 1]
         ELSE [next |-> "consolidation", iteration_count |-> count]

\* pipeline.py should_refine, evaluated on the conditional edge after quality_review
should_refine ==
    /\ pc = "should_refine"
    /\ LET r == Route(plan_approved, iteration_count, quality_review)
       IN  /\ pc' = r.next
           /\ iteration_count' = r.iteration_count
           /\ retries' = IF r.next = "consolidation" THEN retries ELSE retries + 1
    /\ gate_evals' = gate_evals + 1
    /\ UNCHANGED <<units, inputs, slots, final_plan, plan_approved, errors, exception,
                   response, llm_calls, llm_failures, runs>>

\* a consolidation that leaves error sentinels out of the plan
FinalPlan_hides_sentinels ==
    LET shown(v) == IF v.kind = "sentinel" THEN None ELSE v
    IN  [kind |-> "plan", task_id |-> task_id, user_request |-> user_request,
         intent |-> shown(intent_analysis), requirements |-> shown(requirements),
         architecture |-> shown(architecture), implementation |-> shown(implementation_plan),
         quality_review |-> shown(quality_review), approved |-> plan_approved,
         iterations |-> iteration_count]

\* a consolidation that records best-effort whenever the ceiling was reached
FinalPlan_forced_best_effort ==
    [kind |-> "plan", task_id |-> task_id, user_request |-> user_request,
     intent |-> intent_analysis, requirements |-> requirements,
     architecture |-> architecture, implementation |-> implementation_plan,
     quality_review |-> quality_review,
     approved |-> IF iteration_count >= MaxIterations THEN "False" ELSE plan_approved,
     iterations |-> iteration_count]

\* pipeline.py consolidation_node: the projection stored as final_plan
FinalPlan ==
    [kind |-> "plan", task_id |-> task_id, user_request |-> user_request,
     intent |-> intent_analysis, requirements |-> requirements,
     architecture |-> architecture, implementation |-> implementation_plan,
     quality_review |-> quality_review, approved |-> plan_approved,
     iterations |-> iteration_count]

\* pipeline.py consolidation_node, followed by the edge to END: graph.invoke
\* returns and create_plan returns final_plan
consolidation_node ==
    /\ pc = "consolidation"
    /\ final_plan' = FinalPlan
    /\ runs' = [runs EXCEPT !["consolidation"] = @ + 1]
    /\ pc' = "END"
    /\ UNCHANGED <<units, inputs, slots, plan_approved, iteration_count, errors,
                   exception, response, llm_calls, llm_failures, gate_evals, retries>>

\* the five phase nodes with the language model free to answer anything
intent_analysis_node == intent_analysis_step(PlainResults)
requirements_engineering_node == requirements_engineering_step(PlainResults)
architecture_design_node == architecture_design_step(PlainResults)
implementation_planning_node == implementation_planning_step(PlainResults)
quality_review_node == quality_review_step(ReviewResults)

Next ==
    \/ intent_analysis_node
    \/ requirements_engineering_node
    \/ architecture_design_node
    \/ implementation_planning_node
    \/ quality_review_node
    \/ should_refine
    \/ consolidation_node

Spec == Init /\ [][Next]_vars

(* ------------------- the well-behaved language model ------------------- *)
\* every transport call answers, every response is one bare JSON object, and
\* every review scores 9 and lists no issue
AnsweringTraces == {tr \in AttemptTraces : \E i \in DOMAIN tr : tr[i] = "ok"}
HappyPlainResults ==
    {Returned(call_llm(tr, [fmt |-> "bare", val |-> PlainObj])) : tr \in AnsweringTraces}
HappyReviewResults ==
    {Returned(call_llm(tr, [fmt |-> "bare", val |-> o])) :
        tr \in AnsweringTraces,
        o \in {x \in ReviewObjs : x.completeness_score = 9 /\ x.issues = << >>}}

NextHappy ==
    \/ intent_analysis_step(HappyPlainResults)
    \/ requirements_engineering_step(HappyPlainResults)
    \/ architecture_design_step(HappyPlainResults)
    \/ implementation_planning_step(HappyPlainResults)
    \/ quality_review_step(HappyReviewResults)
    \/ should_refine
    \/ consolidation_node

SpecHappy == Init /\ [][NextHappy]_vars

(* --------------------------- type invariant ---------------------------- *)
TypeOK ==
    /\ pc \in Nodes \cup {"should_refine", "END", "raised"}
    /\ plan_approved \in {"None", "True", "False"}
    /\ iteration_count \in Nat
    /\ exception \in {"none", "RuntimeError", "ConnectionError", "AttributeError",
                      "KeyError", "TypeError"}

(* ------------- extract_and_parse_json on the text itself --------------- *)
\* A text is a sequence of symbols: the characters { } [ ] , : a letter "a",
\* a digit "1", a blank "_", the double quote "q", the backslash "b", and the
\* markers <output> ("O"), </output> ("C") and ``` ("F"), each one symbol.

\* longest string value of a JSON document handed to the parser
MaxStringLen == 2
\* the characters a string value is made of, "q" being a double quote
StringChars == {"a", "{", "}", ",", "q"}

\* the nobody-home planner: no planner run is in progress
PlannerIdle ==
    /\ pc = "idle"
    /\ task_id = "task_001"
    /\ user_request = "count vowels"
    /\ model = "mistral"
    /\ show_node_info = FALSE
    /\ intent_analysis = None
    /\ requirements = None
    /\ architecture = None
    /\ implementation_plan = None
    /\ quality_review = None
    /\ final_plan = None
    /\ plan_approved = "None"
    /\ iteration_count = 0
    /\ errors = << >>
    /\ exception = "none"
    /\ response = NoResponse
    /\ llm_calls = 0
    /\ llm_failures = 0
    /\ runs = [n \in Nodes |-> 0]
    /\ gate_evals = 0
    /\ retries = 0
    /\ SingleRun

\* decoded JSON values
JNum(k) == [t |-> "num", n |-> k]
JStr(cs) == [t |-> "str", chars |-> cs]
JArr(es) == [t |-> "arr", e |-> es]
\* members in document order, each <<key, value>>; keys are distinct
JObj(ms) == [t |-> "obj", m |-> ms]

\* json.dumps: string escaping and the default separators ", " and ": "
RECURSIVE Escape(_)
Escape(cs) ==
    IF cs = << >> THEN << >>
    ELSE (IF Head(cs) \in {"q", "b"} THEN <<"b", Head(cs)>> ELSE <<Head(cs)>>)
         \o Escape(Tail(cs))

Quote(cs) == <<"q">> \o Escape(cs) \o <<"q">>

RECURSIVE json_dumps(_), DumpElems(_), DumpMembers(_)
json_dumps(v) ==
    CASE v.t = "num" -> [i \in 1 .. v.n |-> "1"]
      [] v.t = "str" -> Quote(v.chars)
      [] v.t = "arr" -> <<"[">> \o DumpElems(v.e) \o <<"]">>
      [] v.t = "obj" -> <<"{">> \o DumpMembers(v.m) \o <<"}">>

DumpElems(es) ==
    IF es = << >> THEN << >>
    ELSE json_dumps(Head(es))
         \o (IF Len(es) > 1 THEN <<",", "_">> \o DumpElems(Tail(es)) ELSE << >>)

DumpMembers(ms) ==
    IF ms = << >> THEN << >>
    ELSE Quote(Head(ms)[1]) \o <<":", "_">> \o json_dumps(Head(ms)[2])
         \o (IF Len(ms) > 1 THEN <<",", "_">> \o DumpMembers(Tail(ms)) ELSE << >>)

\* json.loads: strict decoding of a whole text
ParseFail == [ok |-> FALSE, val |-> None, next |-> 0]
At(txt, i) == IF i \in 1 .. Len(txt) THEN txt[i] ELSE "EOF"

RECURSIVE SkipWs(_, _)
SkipWs(txt, i) == IF At(txt, i) = "_" THEN SkipWs(txt, i + 1) ELSE i

RECURSIVE ScanDigits(_, _)
ScanDigits(txt, i) == IF At(txt, i) = "1" THEN ScanDigits(txt, i + 1) ELSE i

\* i is just past the opening quote; only \" and \\ are escapes of this alphabet
RECURSIVE ScanString(_, _, _)
ScanString(txt, i, acc) ==
    LET ch == At(txt, i)
    IN  IF ch = "EOF" THEN ParseFail
        ELSE IF ch = "q" THEN [ok |-> TRUE, val |-> JStr(acc), next |-> i + 1]
        ELSE IF ch = "b"
             THEN IF At(txt, i + 1) \in {"q", "b"}
                  THEN ScanString(txt, i + 2, Append(acc, At(txt, i + 1)))
                  ELSE ParseFail
        ELSE ScanString(txt, i + 1, Append(acc, ch))

RECURSIVE ParseValue(_, _), ParseElems(_, _, _), ParseMembers(_, _, _)
ParseValue(txt, i) ==
    LET ch == At(txt, i)
    IN  CASE ch = "1" ->
               LET j == ScanDigits(txt, i)
               IN  [ok |-> TRUE, val |-> JNum(j - i), next |-> j]
          [] ch = "q" -> ScanString(txt, i + 1, << >>)
          [] ch = "[" ->
               LET j == SkipWs(txt, i + 1)
               IN  IF At(txt, j) = "]"
                   THEN [ok |-> TRUE, val |-> JArr(<< >>), next |-> j + 1]
                   ELSE ParseElems(txt, j, << >>)
          [] ch = "{" ->
               LET j == SkipWs(txt, i + 1)
               IN  IF At(txt, j) = "}"
                   THEN [ok |-> TRUE, val |-> JObj(<< >>), next |-> j + 1]
                   ELSE ParseMembers(txt, j, << >>)
          [] OTHER -> ParseFail

ParseElems(txt, i, acc) ==
    LET v == ParseValue(txt, i)
    IN  IF ~v.ok THEN ParseFail
        ELSE LET k == SkipWs(txt, v.next)
             IN  IF At(txt, k) = ","
                 THEN ParseElems(txt, SkipWs(txt, k + 1), Append(acc, v.val))
                 ELSE IF At(txt, k) = "]"
                 THEN [ok |-> TRUE, val |-> JArr(Append(acc, v.val)), next |-> k + 1]
                 ELSE ParseFail

ParseMembers(txt, i, acc) ==
    IF At(txt, i) # "q" THEN ParseFail
    ELSE LET key == ScanString(txt, i + 1, << >>)
         IN  IF ~key.ok THEN ParseFail
             ELSE LET c == SkipWs(txt, key.next)
                  IN  IF At(txt, c) # ":" THEN ParseFail
                      ELSE LET v == ParseValue(txt, SkipWs(txt, c + 1))
                           IN  IF ~v.ok THEN ParseFail
                               ELSE LET k == SkipWs(txt, v.next)
                                        acc2 == Append(acc, <<key.val.chars, v.val>>)
                                    IN  IF At(txt, k) = ","
                                        THEN ParseMembers(txt, SkipWs(txt, k + 1), acc2)
                                        ELSE IF At(txt, k) = "}"
                                        THEN [ok |-> TRUE, val |-> JObj(acc2), next |-> k + 1]
                                        ELSE ParseFail

json_loads_text(txt) ==
    LET v == ParseValue(txt, SkipWs(txt, 1))
    IN  IF v.ok /\ SkipWs(txt, v.next) = Len(txt) + 1
        THEN [ok |-> TRUE, val |-> v.val]
        ELSE [ok |-> FALSE, val |-> None]

Positions(txt, sym) == {i \in 1 .. Len(txt) : txt[i] = sym}
Min(S) == CHOOSE x \in S : \A y \in S : x <= y
Max(S) == CHOOSE x \in S : \A y \in S : y <= x

\* re.search(open \s*(.+?)\s* close, DOTALL): the leftmost opening marker that
\* has a closing marker at least one symbol further on, up to the first such
\* closing marker; group(1) up to blanks at its ends, which strip() removes
SearchDelimited(txt, open, close) ==
    LET starts == {i \in Positions(txt, open) :
                      \E j \in Positions(txt, close) : j > i + 1}
    IN  IF starts = {} THEN [found |-> FALSE, group |-> << >>]
        ELSE LET i == Min(starts)
                 j == Min({k \in Positions(txt, close) : k > i + 1})
             IN  [found |-> TRUE, group |-> SubSeq(txt, i + 1, j - 1)]

\* re.search(r'\{.+\}', DOTALL): from the first { to the last }
SearchBraces(txt) ==
    LET starts == {i \in Positions(txt, "{") :
                      \E j \in Positions(txt, "}") : j > i + 1}
    IN  IF starts = {} THEN [found |-> FALSE, group |-> << >>]
        ELSE [found |-> TRUE,
              group |-> SubSeq(txt, Min(starts), Max(Positions(txt, "}")))]

\* str.strip()
RECURSIVE Strip(_)
Strip(txt) ==
    IF txt = << >> THEN txt
    ELSE IF Head(txt) = "_" THEN Strip(Tail(txt))
    ELSE IF txt[Len(txt)] = "_" THEN Strip(SubSeq(txt, 1, Len(txt) - 1))
    ELSE txt

\* re.sub(r',\s*([}\]])', r'\1', json_str): applies anywhere in the text
RECURSIVE RemoveTrailingCommas(_, _)
RemoveTrailingCommas(txt, i) ==
    IF i > Len(txt) THEN << >>
    ELSE LET k == SkipWs(txt, i + 1)
         IN  IF txt[i] = "," /\ At(txt, k) \in {"}", "]"}
             THEN <<txt[k]>> \o RemoveTrailingCommas(txt, k + 1)
             ELSE <<txt[i]>> \o RemoveTrailingCommas(txt, i + 1)

\* llm.py extract_and_parse_json, one pass of its loop: the candidate of
\* attempt i (the raw text when the pattern does not match), cleaned, decoded
ExtractAttempt(txt, i) ==
    LET m == CASE i = 1 -> SearchDelimited(txt, "O", "C")
               [] i = 2 -> SearchDelimited(txt, "F", "F")
               [] i = 3 -> SearchBraces(txt)
        json_str == IF m.found THEN m.group ELSE txt
    IN  json_loads_text(RemoveTrailingCommas(Strip(json_str), 1))

\* an extract_and_parse_json that gives up when the tagged attempt fails
extract_and_parse_json_text_one_attempt(txt) ==
    IF ExtractAttempt(txt, 1).ok THEN ExtractAttempt(txt, 1)
    ELSE [ok |-> FALSE, val |-> None]

\* llm.py extract_and_parse_json on a text: the first attempt that decodes,
\* ok = FALSE standing for the JSONDecodeError raised after the third
extract_and_parse_json_text(txt) ==
    IF ExtractAttempt(txt, 1).ok THEN ExtractAttempt(txt, 1)
    ELSE IF ExtractAttempt(txt, 2).ok THEN ExtractAttempt(txt, 2)
    ELSE IF ExtractAttempt(txt, 3).ok THEN ExtractAttempt(txt, 3)
    ELSE [ok |-> FALSE, val |-> None]

\* the JSON documents handed to the parser
StringValues == SeqsUpTo(StringChars, MaxStringLen)
JsonObjects ==
    {JObj(<< <<<<"a">>, JStr(cs)>> >>) : cs \in StringValues}
    \cup {JObj(<< <<<<"a">>, JNum(1)>>, <<<<"a", "a">>, JArr(<<JNum(1), JNum(1)>>)>> >>)}
JsonArrays ==
    {JArr(<<JNum(1), JNum(1)>>)} \cup {JArr(<<JStr(cs)>>) : cs \in StringValues}

\* prose around the document: none, words, words with braces of their own
PlainProse == {<< >>, <<"a", "_">>}
BraceProse == {<<"a", "{", "a", "}", "_">>}

\* the text with a comma put before its closing bracket
WithTrailingComma(doc) ==
    SubSeq(doc, 1, Len(doc) - 1) \o <<",">> \o <<doc[Len(doc)]>>

TaggedInputs ==
    {[shape |-> "tagged", payload_text |-> json_dumps(v),
      text |-> pre \o <<"O">> \o json_dumps(v) \o <<"C">> \o post] :
        v \in JsonObjects \cup {JObj(<< >>)},
        pre \in PlainProse \cup BraceProse, post \in PlainProse \cup BraceProse}
TrailingInputs ==
    {[shape |-> "trailing", payload_text |-> json_dumps(v),
      text |-> WithTrailingComma(json_dumps(v))] : v \in JsonObjects \cup JsonArrays}
ProseInputs ==
    {[shape |-> "prose", payload_text |-> json_dumps(v),
      text |-> pre \o json_dumps(v) \o post] :
        v \in JsonObjects, pre \in PlainProse, post \in {<< >>, <<"_", "a">>}}
\* two JSON objects one after the other in untagged prose; payload_text is the
\* first of them
MultiInputs ==
    {[shape |-> "multi", payload_text |-> json_dumps(v),
      text |-> json_dumps(v) \o sep \o json_dumps(w)] :
        v \in JsonObjects, w \in {JObj(<< >>), JObj(<< <<<<"a">>, JNum(1)>> >>)},
        sep \in {<<"_">>, <<"_", "a", "_">>}}
\* texts without any JSON: empty, blanks only, tags or a fence around blanks
BlankInputs ==
    {[shape |-> "blank", payload_text |-> << >>, text |-> t] :
        t \in {<< >>, <<"_">>, <<"_", "_">>, <<"O", "_", "C">>, <<"F", "_", "F">>}}
ParserInputs ==
    TaggedInputs \cup TrailingInputs \cup ProseInputs \cup MultiInputs \cup BlankInputs

InitJson ==
    /\ PlannerIdle /\ CompressIdle /\ CallIdle /\ CoderIdle /\ LoopsIdle
    /\ \E x \in ParserInputs :
         /\ text = x.text
         /\ payload_text = x.payload_text
         /\ shape = x.shape
    /\ parse_result = NotParsed

\* one call extract_and_parse_json(text)
extract_and_parse_json_call ==
    /\ shape # "none"
    /\ ~parse_result.done
    /\ LET out == extract_and_parse_json_text(text)
       IN  parse_result' = [done |-> TRUE, ok |-> out.ok, val |-> out.val]
    /\ UNCHANGED <<planner_vars, other_run, loops_vars, text, payload_text, shape, compress_vars, call_vars,
                   coder_vars>>

SpecJson == InitJson /\ [][extract_and_parse_json_call]_vars

(* ------------------- compress_phase_output on its own ------------------ *)
\* the four names with a digest of their own, and one without
PhaseNames == {"intent_analysis", "requirements", "architecture", "implementation",
               "quality_review"}
CompressInputs ==
    {None, EmptyObj, NumVal, PlainObj, PlainArr, Sentinel(Prose)} \cup BadObjs

InitCompress ==
    /\ PlannerIdle /\ ParserIdle /\ CallIdle /\ CoderIdle /\ LoopsIdle
    /\ name_arg \in PhaseNames
    /\ data_arg \in CompressInputs
    /\ compressed = NotCompressed

\* one call compress_phase_output(name_arg, data_arg)
compress_phase_output_call ==
    /\ name_arg # "none"
    /\ ~compressed.done
    /\ LET out == compress_phase_output(name_arg, data_arg)
       IN  compressed' = [done |-> TRUE, exc |-> out.exc, text |-> out.text]
    /\ UNCHANGED <<planner_vars, other_run, loops_vars, parser_vars, name_arg, data_arg, call_vars, coder_vars>>

SpecCompress == InitCompress /\ [][compress_phase_output_call]_vars

(* ------------------------- call_llm on its own ------------------------- *)
\* what one ollama.chat can do: the four outcomes the planner tells apart and
\* any other exception (a timeout, a malformed reply)
TransportOutcomes == AttemptOutcomes \cup {"TimeoutError"}

\* planner/llm.py lines 765-769 and core/llm.py line 100: the attempt returns;
\* the planner's call_llm refuses content of fewer than 10 characters
Success(im, outcome) ==
    IF im = "planner" THEN outcome = "ok" ELSE outcome \in {"ok", "empty"}

\* the exception raised after the last attempt: planner/llm.py lines 771-790
\* wrap it, core/llm.py line 103 re-raises it
RaisedBy(im, outcome) ==
    IF im = "planner"
    THEN IF outcome = "RequestError" THEN "ConnectionError" ELSE "RuntimeError"
    ELSE outcome

\* a loop that allows one attempt more than max_retries + 1
AfterAttempt_extra_retry(im, n, outcome) ==
    IF Success(im, outcome)
    THEN [state |-> "returned", exc |-> "none", attempt |-> n]
    ELSE IF n = max_retries + 1
         THEN [state |-> "raised", exc |-> RaisedBy(im, outcome), attempt |-> n]
         ELSE [state |-> "running", exc |-> "none", attempt |-> n + 1]

\* one pass of "for attempt in range(config.max_retries + 1)": n is the loop
\* variable, outcome what ollama.chat did
AfterAttempt(im, n, outcome) ==
    IF Success(im, outcome)
    THEN [state |-> "returned", exc |-> "none", attempt |-> n]
    ELSE IF n = max_retries
         THEN [state |-> "raised", exc |-> RaisedBy(im, outcome), attempt |-> n]
         ELSE [state |-> "running", exc |-> "none", attempt |-> n + 1]

InitCallLlm ==
    /\ PlannerIdle /\ ParserIdle /\ CompressIdle /\ CoderIdle /\ LoopsIdle
    /\ impl \in {"planner", "core"}
    /\ attempt = 0
    /\ outcomes = << >>
    /\ call_state = "running"
    /\ call_exc = "none"

\* one ollama.chat and what the loop does with it
call_llm_attempt ==
    /\ call_state = "running"
    /\ \E o \in TransportOutcomes :
         LET a == AfterAttempt(impl, attempt, o)
         IN  /\ outcomes' = Append(outcomes, o)
             /\ call_state' = a.state
             /\ call_exc' = a.exc
             /\ attempt' = a.attempt
    /\ UNCHANGED <<planner_vars, other_run, loops_vars, parser_vars, compress_vars, impl, coder_vars>>

SpecCallLlm == InitCallLlm /\ [][call_llm_attempt]_vars

(* ------------------------------ coder agent ---------------------------- *)
\* the arguments of CoderAgent.generate_code, by what the validator tells apart
Signatures == {"empty", "malformed", "valid"}
Plans == {"empty", "brief", "detailed"}

\* nodes/input_validator.py _validate_function_signature
validate_function_signature(signature) ==
    CASE signature = "empty" -> <<"Signature cannot be empty">>
      [] signature = "malformed" ->
            <<"Signature must start with 'def'",
              "Invalid function name or missing parentheses",
              "Signature must end with ':'">>
      [] OTHER -> << >>

\* nodes/input_validator.py _validate_plan_structure
validate_plan_structure(plan) ==
    CASE plan = "empty" -> <<"Plan cannot be empty">>
      [] plan = "brief" -> <<"Plan seems too brief">>
      [] OTHER -> << >>

\* agent.py generate_code: the initial CoderAgentState
CoderInitialState(tid, signature, plan, m) ==
    [task_id |-> tid, signature |-> signature, plan |-> plan, model |-> m,
     code |-> "None", errors |-> << >>, input_validation_errors |-> << >>,
     should_proceed |-> TRUE, edge_cases |-> "[]", cot_reasoning |-> "",
     raw_code |-> "None", validated_code |-> "None", validation_errors |-> << >>,
     optimized_code |-> "None",
     llm_calls |-> 0]           \* calls of the language model so far (bookkeeping)

InitCoder ==
    /\ PlannerIdle /\ ParserIdle /\ CompressIdle /\ CallIdle /\ LoopsIdle
    /\ coder_pc = "input_validator"
    /\ \E tid \in {"", "task_001"}, signature \in Signatures, plan \in Plans,
          m \in {"", "deepseek"} :
         coder = CoderInitialState(tid, signature, plan, m)
    /\ coder_result = None

CoderStep(next, state) ==
    /\ coder' = state
    /\ coder_pc' = next
    /\ UNCHANGED <<planner_vars, other_run, loops_vars, parser_vars, compress_vars, call_vars, coder_result>>

\* nodes/input_validator.py input_validator_node: the findings go to
\* input_validation_errors, never to errors
input_validator_node ==
    /\ coder_pc = "input_validator"
    /\ LET validation_errors ==
               validate_function_signature(coder.signature)
               \o validate_plan_structure(coder.plan)
               \o (IF coder.task_id = "" THEN <<"task_id is required">> ELSE << >>)
               \o (IF coder.model = "" THEN <<"model is required">> ELSE << >>)
       IN  CoderStep("edge_case_analyzer",
                     [coder EXCEPT !.input_validation_errors = validation_errors,
                                   !.should_proceed = (validation_errors = << >>)])

\* what a call of the language model by a coder node gives
LlmOutcomes == {"raises", "text"}

\* the state of a node that has called the language model
Asked(state) == [state EXCEPT !.llm_calls = @ + 1]

\* an edge case analyzer that does not look at should_proceed
edge_case_analyzer_node_ungated ==
    /\ coder_pc = "edge_case_analyzer"
    /\ \E o \in LlmOutcomes :
         CoderStep("cot_generator",
             IF o = "raises"
             THEN [Asked(coder) EXCEPT !.errors = Append(@, "Edge case analysis error"),
                                       !.edge_cases = "[]"]
             ELSE [Asked(coder) EXCEPT !.edge_cases = "cases"])

\* nodes/edge_case_analyzer.py edge_case_analyzer_node
edge_case_analyzer_node ==
    /\ coder_pc = "edge_case_analyzer"
    /\ IF ~coder.should_proceed
       THEN CoderStep("cot_generator", [coder EXCEPT !.edge_cases = "[]"])
       ELSE \E o \in LlmOutcomes :
              CoderStep("cot_generator",
                  IF o = "raises"
                  THEN [Asked(coder) EXCEPT !.errors = Append(@, "Edge case analysis error"),
                                     !.edge_cases = "[]"]
                  ELSE [Asked(coder) EXCEPT !.edge_cases = "cases"])

\* a chain-of-thought node without the except clause: the exception of the
\* call leaves the graph
cot_generator_node_propagates ==
    /\ coder_pc = "cot_generator"
    /\ IF ~coder.should_proceed
       THEN CoderStep("code_generator", [coder EXCEPT !.cot_reasoning = ""])
       ELSE \E o \in LlmOutcomes :
              IF o = "raises"
              THEN CoderStep("raised", Asked(coder))
              ELSE CoderStep("code_generator",
                             [Asked(coder) EXCEPT !.cot_reasoning = "reasoning"])

\* nodes/cot_generator.py cot_generator_node
cot_generator_node ==
    /\ coder_pc = "cot_generator"
    /\ IF ~coder.should_proceed
       THEN CoderStep("code_generator", [coder EXCEPT !.cot_reasoning = ""])
       ELSE \E o \in LlmOutcomes :
              CoderStep("code_generator",
                  IF o = "raises"
                  THEN [Asked(coder) EXCEPT !.errors = Append(@, "CoT generation error"),
                                     !.cot_reasoning = ""]
                  ELSE [Asked(coder) EXCEPT !.cot_reasoning = "reasoning"])

\* nodes/code_generator.py code_generator_node: extract_python_code gives None
\* or code that ast.parse accepts
code_generator_node ==
    /\ coder_pc = "code_generator"
    /\ IF ~coder.should_proceed
       THEN CoderStep("code_validator", [coder EXCEPT !.raw_code = "None"])
       ELSE \E o \in LlmOutcomes \cup {"no_code"} :
              CoderStep("code_validator",
                  CASE o = "raises" ->
                         [Asked(coder) EXCEPT !.errors = Append(@, "Code generation error"),
                                       !.raw_code = "None"]
                    [] o = "no_code" ->
                         [Asked(coder) EXCEPT
                            !.errors = Append(@, "Failed to extract valid Python code"),
                            !.raw_code = "None"]
                    [] OTHER -> [Asked(coder) EXCEPT !.raw_code = "code"])

\* nodes/code_validator.py _validate_syntax on code that extract_python_code
\* let through
validate_syntax(code) == IF code = "code" THEN << >> ELSE <<"Syntax error">>

\* nodes/code_validator.py code_validator_node
code_validator_node ==
    /\ coder_pc = "code_validator"
    /\ IF coder.raw_code \in {"None", ""}
       THEN CoderStep("code_optimizer",
                [coder EXCEPT !.validated_code = "None",
                              !.validation_errors = <<"No code to validate">>])
       ELSE IF validate_syntax(coder.raw_code) = << >>
       THEN CoderStep("code_optimizer",
                [coder EXCEPT !.validated_code = coder.raw_code,
                              !.validation_errors = << >>])
       ELSE CoderStep("code_optimizer",
                [coder EXCEPT !.validated_code = "None",
                              !.validation_errors = validate_syntax(coder.raw_code),
                              !.errors = @ \o validate_syntax(coder.raw_code)])

\* an optimizer that gives up the code when its call raises
code_optimizer_node_no_fallback ==
    /\ coder_pc = "code_optimizer"
    /\ IF coder.validated_code \in {"None", ""}
       THEN CoderStep("consolidation", [coder EXCEPT !.optimized_code = "None"])
       ELSE \E o \in LlmOutcomes \cup {"empty"} :
              CoderStep("consolidation",
                  CASE o = "raises" ->
                         [Asked(coder) EXCEPT !.errors = Append(@, "Optimization error"),
                                       !.optimized_code = "None"]
                    [] o = "empty" -> [Asked(coder) EXCEPT !.optimized_code = ""]
                    [] OTHER -> [Asked(coder) EXCEPT !.optimized_code = "code"])

\* nodes/code_optimizer.py code_optimizer_node: the reply becomes the code as
\* it is, an empty reply included
code_optimizer_node ==
    /\ coder_pc = "code_optimizer"
    /\ IF coder.validated_code \in {"None", ""}
       THEN CoderStep("consolidation", [coder EXCEPT !.optimized_code = "None"])
       ELSE \E o \in LlmOutcomes \cup {"empty"} :
              CoderStep("consolidation",
                  CASE o = "raises" ->
                         [Asked(coder) EXCEPT !.errors = Append(@, "Optimization error"),
                                       !.optimized_code = coder.validated_code]
                    [] o = "empty" -> [Asked(coder) EXCEPT !.optimized_code = ""]
                    [] OTHER -> [Asked(coder) EXCEPT !.optimized_code = "code"])

\* coder/pipeline.py consolidation_node
coder_consolidation_node ==
    /\ coder_pc = "consolidation"
    /\ CoderStep("return", [coder EXCEPT !.code = coder.optimized_code])

\* agent.py generate_code, lines 69-76: the dict built from the final state
GenerateCodeResult(state) ==
    [success |-> state.code # "None",
     code |-> state.code,
     error |-> IF state.errors # << >> THEN state.errors[1] ELSE "None"]

generate_code_return ==
    /\ coder_pc = "return"
    /\ coder_result' = GenerateCodeResult(coder)
    /\ coder_pc' = "END"
    /\ UNCHANGED <<planner_vars, other_run, loops_vars, parser_vars, compress_vars, call_vars, coder>>

NextCoder ==
    \/ input_validator_node
    \/ edge_case_analyzer_node
    \/ cot_generator_node
    \/ code_generator_node
    \/ code_validator_node
    \/ code_optimizer_node
    \/ coder_consolidation_node
    \/ generate_code_return

SpecCoder == InitCoder /\ [][NextCoder]_vars

(* ------------------ two create_plan calls interleaved ------------------ *)
\* the state of the call the planner variables describe, as one record
RunState ==
    [pc |-> pc, task_id |-> task_id, user_request |-> user_request, model |-> model,
     show_node_info |-> show_node_info, intent_analysis |-> intent_analysis,
     requirements |-> requirements, architecture |-> architecture,
     implementation_plan |-> implementation_plan, quality_review |-> quality_review,
     final_plan |-> final_plan, plan_approved |-> plan_approved,
     iteration_count |-> iteration_count, errors |-> errors, exception |-> exception,
     response |-> response, llm_calls |-> llm_calls, llm_failures |-> llm_failures,
     runs |-> runs, gate_evals |-> gate_evals, retries |-> retries]

\* agent.py create_plan, lines 69-83: the state dict is built anew by every
\* call, from the call's arguments and the agent's model
InitialState(t, u, m, verbose) ==
    [pc |-> "intent_analysis", task_id |-> t, user_request |-> u, model |-> m,
     show_node_info |-> verbose, intent_analysis |-> None, requirements |-> None,
     architecture |-> None, implementation_plan |-> None, quality_review |-> None,
     final_plan |-> None, plan_approved |-> "None", iteration_count |-> 0,
     errors |-> << >>, exception |-> "none", response |-> NoResponse,
     llm_calls |-> 0, llm_failures |-> 0, runs |-> [n \in Nodes |-> 0],
     gate_evals |-> 0, retries |-> 0]

\* the planner variables describe the call whose state is s
Holds(s) ==
    /\ pc = s.pc
    /\ task_id = s.task_id
    /\ user_request = s.user_request
    /\ model = s.model
    /\ show_node_info = s.show_node_info
    /\ intent_analysis = s.intent_analysis
    /\ requirements = s.requirements
    /\ architecture = s.architecture
    /\ implementation_plan = s.implementation_plan
    /\ quality_review = s.quality_review
    /\ final_plan = s.final_plan
    /\ plan_approved = s.plan_approved
    /\ iteration_count = s.iteration_count
    /\ errors = s.errors
    /\ exception = s.exception
    /\ response = s.response
    /\ llm_calls = s.llm_calls
    /\ llm_failures = s.llm_failures
    /\ runs = s.runs
    /\ gate_evals = s.gate_evals
    /\ retries = s.retries

\* two calls whose state dicts share one errors list
Resume_shared_errors(s) ==
    /\ pc' = s.pc
    /\ task_id' = s.task_id
    /\ user_request' = s.user_request
    /\ model' = s.model
    /\ show_node_info' = s.show_node_info
    /\ intent_analysis' = s.intent_analysis
    /\ requirements' = s.requirements
    /\ architecture' = s.architecture
    /\ implementation_plan' = s.implementation_plan
    /\ quality_review' = s.quality_review
    /\ final_plan' = s.final_plan
    /\ plan_approved' = s.plan_approved
    /\ iteration_count' = s.iteration_count
    /\ errors' = errors
    /\ exception' = s.exception
    /\ response' = s.response
    /\ llm_calls' = s.llm_calls
    /\ llm_failures' = s.llm_failures
    /\ runs' = s.runs
    /\ gate_evals' = s.gate_evals
    /\ retries' = s.retries

\* the other call goes on: every node works on the dict graph.invoke was given
\* by its own create_plan (agent.py:86), so the planner variables take the
\* values the other call left
Resume(s) ==
    /\ pc' = s.pc
    /\ task_id' = s.task_id
    /\ user_request' = s.user_request
    /\ model' = s.model
    /\ show_node_info' = s.show_node_info
    /\ intent_analysis' = s.intent_analysis
    /\ requirements' = s.requirements
    /\ architecture' = s.architecture
    /\ implementation_plan' = s.implementation_plan
    /\ quality_review' = s.quality_review
    /\ final_plan' = s.final_plan
    /\ plan_approved' = s.plan_approved
    /\ iteration_count' = s.iteration_count
    /\ errors' = s.errors
    /\ exception' = s.exception
    /\ response' = s.response
    /\ llm_calls' = s.llm_calls
    /\ llm_failures' = s.llm_failures
    /\ runs' = s.runs
    /\ gate_evals' = s.gate_evals
    /\ retries' = s.retries

\* the task of each of the two calls
TaskOf(k) == IF k = 1 THEN "task_001" ELSE "task_002"

\* two calls, on one PlannerAgent (same model) or on two (different models)
InitTwoRuns ==
    /\ \E m1 \in Models :
         /\ Holds(InitialState(TaskOf(1), "count vowels", m1, FALSE))
         /\ suspended = InitialState(TaskOf(2), "sum digits", "mistral", TRUE)
    /\ active = 1
    /\ ParserIdle /\ CompressIdle /\ CallIdle /\ CoderIdle /\ LoopsIdle

\* the scheduler lets the other call run
switch ==
    /\ suspended' = RunState
    /\ Resume(suspended)
    /\ active' = 3 - active
    /\ UNCHANGED <<parser_vars, compress_vars, call_vars, coder_vars, loops_vars>>

\* what the language model answers in the two-call scenario: an object or
\* prose to a planning prompt; an approval, a rejection that names
\* architecture_design, or prose to the review prompt
TwoRunPlainResults ==
    {[exc |-> "none", response |-> r] : r \in {[fmt |-> "bare", val |-> PlainObj], Prose}}
TwoRunReviews ==
    {[kind |-> "obj", approval_status |-> "approved", completeness_score |-> 9,
      issues |-> << >>, retry_phase |-> "consolidation"],
     [kind |-> "obj", approval_status |-> "needs_revision", completeness_score |-> 5,
      issues |-> <<"critical">>, retry_phase |-> "architecture_design"]}
TwoRunReviewResults ==
    {[exc |-> "none", response |-> r] :
        r \in [fmt : {"tagged"}, val : TwoRunReviews] \cup {Prose}}

NextTwoRuns ==
    \/ intent_analysis_step(TwoRunPlainResults)
    \/ requirements_engineering_step(TwoRunPlainResults)
    \/ architecture_design_step(TwoRunPlainResults)
    \/ implementation_planning_step(TwoRunPlainResults)
    \/ quality_review_step(TwoRunReviewResults)
    \/ should_refine
    \/ consolidation_node
    \/ switch

SpecTwoRuns == InitTwoRuns /\ [][NextTwoRuns]_vars

(* ------------------------------- claims -------------------------------- *)
Finished == pc = "END"

\* C1: a run in which every quality review was rejected makes exactly two
\* retries: the third evaluation of the gate goes to consolidation, and the
\* final plan records iterations = 2 and is not approved; no run ever makes a
\* third retry.
C1_RejectedRunStopsAfterTwoRetries ==
    /\ retries <= MaxIterations
    /\ (Finished /\ plan_approved # "True") =>
          /\ retries = MaxIterations
          /\ gate_evals = MaxIterations + 1
          /\ runs["quality_review"] = MaxIterations + 1
          /\ final_plan.iterations = MaxIterations
          /\ final_plan.approved = "False"

C1_Witness ==
    /\ pc = "END"
    /\ final_plan.approved = "False"
    /\ final_plan.iterations = 2
    /\ retries = 2

\* C2: iteration_count always lies between 0 and 2, and an evaluation of the
\* gate at iteration_count = 2 goes to consolidation whatever the review says.
C2_IterationCountBounded ==
    /\ [](iteration_count \in 0 .. MaxIterations)
    /\ [][(pc = "should_refine" /\ iteration_count = MaxIterations)
            => (pc' = "consolidation" /\ iteration_count' = iteration_count)]_vars

C2_Witness ==
    /\ pc = "consolidation"
    /\ iteration_count = MaxIterations
    /\ plan_approved = "False"
    /\ quality_review.kind = "obj"
    /\ quality_review.retry_phase \in ValidPhases

Phases == Nodes \ {"consolidation"}

\* the state slot a phase node writes
SlotOf(n) ==
    CASE n = "intent_analysis" -> intent_analysis
      [] n = "requirements_engineering" -> requirements
      [] n = "architecture_design" -> architecture
      [] n = "implementation_planning" -> implementation_plan
      [] n = "quality_review" -> quality_review

\* the step that follows a phase node in the chain
ChainNext(n) ==
    CASE n = "intent_analysis" -> "requirements_engineering"
      [] n = "requirements_engineering" -> "architecture_design"
      [] n = "architecture_design" -> "implementation_planning"
      [] n = "implementation_planning" -> "quality_review"
      [] n = "quality_review" -> "should_refine"

\* this step is a call_llm that returned a response
CallReturned == llm_calls' = llm_calls + 1 /\ llm_failures' = llm_failures

AllCallsFailed == llm_calls > 0 /\ llm_failures = llm_calls

C4_ParseFailureRecorded ==
    [][\A n \in Phases :
          (pc = n /\ CallReturned /\ ~extract_and_parse_json(response').ok) =>
              /\ Len(errors') = Len(errors) + 1
              /\ SubSeq(errors', 1, Len(errors)) = errors
              /\ SlotOf(n)' = Sentinel(response')
              /\ exception' = "none"
              /\ pc' = ChainNext(n)]_vars

C4_Witness ==
    /\ pc = "architecture_design"
    /\ requirements = Sentinel(Prose)
    /\ response = Prose
    /\ Len(errors) = 1

\* C5 as stated: a response that decodes to a non-object value, or review
\* issues without the severity/description/recommendation keys, never make an
\* exception escape the phase node.
C5_NoExceptionEscapes == exception \notin {"AttributeError", "KeyError", "TypeError"}

HasCritical(review) == \E k \in DOMAIN review.issues : review.issues[k] = "critical"

\* a decoded review that the stated threshold rejects
LowQuality(review) ==
    /\ review.kind = "obj"
    /\ (review.completeness_score < ApprovalThreshold \/ HasCritical(review))

\* a decoded review that the stated threshold accepts
HighQuality(review) ==
    /\ review.kind = "obj"
    /\ review.completeness_score >= ApprovalThreshold
    /\ ~HasCritical(review)

Rejects == iteration_count' = iteration_count + 1 /\ pc' \in ValidPhases

\* C6 as stated: below the ceiling, a review with score < 6 or a critical
\* issue is rejected whatever its other fields say.
C6_Original ==
    [][(pc = "should_refine" /\ iteration_count < MaxIterations /\ LowQuality(quality_review))
          => Rejects]_vars

\* C6 amended: below the ceiling, a review with score < 6 or a critical issue
\* is approved only if its approval_status is "approved"; otherwise
\* iteration_count is incremented and control passes to a retry phase.
C6_LowQualityFollowsStatus ==
    [][(pc = "should_refine" /\ iteration_count < MaxIterations /\ LowQuality(quality_review))
          => IF quality_review.approval_status = "approved"
             THEN plan_approved = "True" /\ pc' = "consolidation"
                  /\ iteration_count' = iteration_count
             ELSE plan_approved = "False" /\ Rejects]_vars

C6_Witness ==
    /\ pc \in ValidPhases
    /\ iteration_count = 1
    /\ retries = 1
    /\ LowQuality(quality_review)
    /\ quality_review.approval_status = "needs_revision"

\* C7 as stated: a first review with score >= 6 and no critical issue is
\* approved: the gate goes to consolidation and iteration_count stays 0.
C7_FirstPassApproved ==
    [][(pc = "should_refine" /\ gate_evals = 0 /\ HighQuality(quality_review))
          => (plan_approved = "True" /\ pc' = "consolidation" /\ iteration_count' = 0)]_vars

\* the review names no valid retry target
InvalidRetry(review) == review.kind # "obj" \/ review.retry_phase \notin ValidPhases

\* C8: a rejected review below the ceiling whose retry_phase is missing or
\* not a valid target sends the run to architecture_design: the gate raises
\* nothing and the retry is counted.
C8_InvalidRetryFallsBack ==
    [][(/\ pc = "should_refine"
        /\ plan_approved # "True"
        /\ iteration_count < MaxIterations
        /\ InvalidRetry(quality_review))
          => (/\ pc' = "architecture_design"
              /\ retries' = retries + 1
              /\ iteration_count' = iteration_count + 1
              /\ exception' = "none")]_vars

C8_Witness ==
    /\ pc = "architecture_design"
    /\ retries = 1
    /\ quality_review.kind = "obj"
    /\ quality_review.retry_phase = "consolidation"

\* C9 as stated: a run whose gate was evaluated at iteration_count = 2 ends
\* with a plan that is not approved, whatever the review says.
C9_Original ==
    (pc = "END" /\ final_plan.iterations = MaxIterations) => final_plan.approved # "True"

\* C9 amended: a gate evaluated at iteration_count = 2 goes to consolidation
\* whatever the review says, and the final plan is approved exactly when the
\* approval_status of that review is "approved" (best-effort otherwise).
C9_CeilingKeepsVerdict ==
    /\ [][(pc = "should_refine" /\ iteration_count = MaxIterations)
            => pc' = "consolidation"]_vars
    /\ []((pc = "END" /\ final_plan.iterations = MaxIterations) =>
            (final_plan.approved = "True" <=>
                (quality_review.kind = "obj" /\ quality_review.approval_status = "approved")))

C9_Witness ==
    /\ pc = "END"
    /\ final_plan.iterations = MaxIterations
    /\ final_plan.approved = "True"

\* C10 as stated: with one well-formed JSON object per phase and every
\* review scoring 9 without issues, the run executes each phase once and ends
\* with five decoded outputs, iterations = 0, approved and no errors.
C10_HappyPath ==
    pc = "END" =>
        /\ \A n \in Phases : runs[n] = 1 /\ SlotOf(n).kind = "obj"
        /\ final_plan.iterations = 0
        /\ final_plan.approved = "True"
        /\ errors = << >>

\* C11 as stated: a run makes at most 5 + 3*MaxIterations phase-level calls of
\* the language model.
C11_Original == llm_calls <= Cardinality(Phases) + 3 * MaxIterations

\* C11 amended: a retry from requirements_engineering re-runs four phases
\* (the review included), so a run makes at most 5 + 4*MaxIterations calls;
\* intent_analysis runs once and quality_review at most MaxIterations + 1 times.
C11_CallsBounded ==
    /\ llm_calls <= Cardinality(Phases) + 4 * MaxIterations
    /\ runs["intent_analysis"] <= 1
    /\ runs["quality_review"] <= MaxIterations + 1

C11_Witness ==
    /\ pc = "END"
    /\ llm_calls = Cardinality(Phases) + 4 * MaxIterations
    /\ runs["requirements_engineering"] = MaxIterations + 1

\* C12: final_plan is written once, by consolidation on the step that ends the
\* run, and it is the projection of the state at that moment: the inputs of
\* create_plan, the five phase outputs (sentinels included), plan_approved and
\* iteration_count.
C12_FinalPlanIsProjection ==
    /\ [][final_plan' # final_plan =>
            /\ pc = "consolidation" /\ pc' = "END"
            /\ final_plan = None
            /\ runs["consolidation"] = 0]_vars
    /\ [][<<task_id, user_request>>' = <<task_id, user_request>>]_vars
    /\ [](pc # "END" => final_plan = None)
    /\ [](pc = "END" =>
            /\ runs["consolidation"] = 1
            /\ final_plan.task_id = task_id
            /\ final_plan.user_request = user_request
            /\ final_plan.intent = intent_analysis
            /\ final_plan.requirements = requirements
            /\ final_plan.architecture = architecture
            /\ final_plan.implementation = implementation_plan
            /\ final_plan.quality_review = quality_review
            /\ final_plan.approved = plan_approved
            /\ final_plan.iterations = iteration_count)

C12_Witness ==
    /\ pc = "END"
    /\ final_plan.requirements = Sentinel(Prose)
    /\ final_plan.iterations = 1
    /\ final_plan.approved = "True"

\* the exception a phase node raises after its call_llm returned r, with and
\* without show_node_info
NodeExc(n, r, verbose, errs) ==
    LET res == [exc |-> "none", response |-> r]
    IN  IF n = "quality_review"
        THEN ReviewOutcome(res, extract_and_parse_json(r), verbose, errs).exc
        ELSE PhaseOutcome(res,
                          Decode(IF n = "architecture_design" THEN "json.loads"
                                 ELSE "extract_and_parse_json", r),
                          verbose, errs, "parse failed").exc

\* C13 as stated: on the same response a phase node does the same thing with
\* show_node_info on and off; in particular the verbose node raises only where
\* the quiet node raises.
C13_VerboseSameControlFlow ==
    [][\A n \in Phases :
          (pc = n /\ CallReturned) =>
              NodeExc(n, response', TRUE, errors) = NodeExc(n, response', FALSE, errors)]_vars

Payload == json_loads_text(payload_text)

\* C14 as stated: for a well-formed JSON object between <output> and
\* </output>, extract_and_parse_json returns what strict decoding of the
\* payload gives, whatever surrounds the tags and whatever the string values
\* contain.
C14_TaggedPayloadExact ==
    (shape = "tagged" /\ parse_result.done) =>
        (parse_result.ok /\ parse_result.val = Payload.val)

\* C15 as stated: a JSON object or array whose only defect is a comma before
\* its closing bracket decodes to the value of the text without that comma.
C15_TrailingCommaRepaired ==
    (shape = "trailing" /\ parse_result.done) =>
        (Payload.ok /\ parse_result.ok /\ parse_result.val = Payload.val)

\* C16 as stated: a JSON object inside untagged prose, whose string values
\* contain braces or an escaped quote, is found and returned.
C16_ProseObjectReturned ==
    (shape = "prose" /\ parse_result.done /\ text # payload_text) =>
        (parse_result.ok /\ parse_result.val = Payload.val /\ parse_result.val.t = "obj")

\* C17 as stated: compress_phase_output raises nothing and returns a non-empty
\* string for every phase name and every phase output.
C17_CompressTotal ==
    compressed.done => (compressed.exc = "none" /\ compressed.text # "")

\* the outcomes observed so far, completed to a full trace by attempts that
\* never took place
PaddedTrace == [i \in 1 .. (max_retries + 1) |->
                   IF i <= Len(outcomes) THEN outcomes[i] ELSE "ok"]

\* C18: call_llm calls the transport at most max_retries + 1 times, returns on
\* the first attempt that succeeds and makes no attempt after it, and raises
\* only when the last of the max_retries + 1 attempts has failed; the loop
\* agrees with the closed form call_llm used by the phase nodes.
C18_RetryLoop ==
    /\ Len(outcomes) <= max_retries + 1
    /\ \A i \in 1 .. (Len(outcomes) - 1) : ~Success(impl, outcomes[i])
    /\ call_state = "running" => \A i \in DOMAIN outcomes : ~Success(impl, outcomes[i])
    /\ call_state = "returned" =>
          (call_exc = "none" /\ Success(impl, outcomes[Len(outcomes)]))
    /\ call_state = "raised" =>
          /\ Len(outcomes) = max_retries + 1
          /\ ~Success(impl, outcomes[Len(outcomes)])
          /\ call_exc # "none"
    /\ (impl = "planner" /\ call_state \in {"returned", "raised"}
            /\ PaddedTrace \in AttemptTraces) =>
          /\ call_llm(PaddedTrace, Prose).exc = call_exc
          /\ call_llm(PaddedTrace, Prose).attempts = Len(outcomes)

C18_Witness ==
    /\ call_state = "returned"
    /\ Len(outcomes) = max_retries + 1
    /\ impl = "planner"

\* C19 as stated: whenever generate_code returns success = False, the error
\* field of the result is a message, not None, whatever made the run fail.
C19_FailureHasError ==
    (coder_pc = "END" /\ ~coder_result.success) => coder_result.error # "None"

\* C21: the gate hands control to a retry target among requirements,
\* architecture and implementation (or to consolidation) without executing
\* anything; a phase node that completes is followed by the next node of the
\* chain, and a step executes only the node control is at. So after a retry
\* to T the nodes run are T and the later phases in chain order, then the gate;
\* no phase before T runs again: at every gate evaluation each phase has run
\* at least as often as the phase before it, the review as often as the
\* implementation planning, and intent analysis once.
C21_RetryRunsChainFromTarget ==
    /\ [][pc = "should_refine" =>
            /\ pc' \in ValidPhases \cup {"consolidation"}
            /\ runs' = runs]_vars
    /\ [][(pc \in Phases) =>
            /\ pc' \in {ChainNext(pc), "raised"}
            /\ runs' = [runs EXCEPT ![pc] = @ + 1] ]_vars
    /\ [](pc = "should_refine" =>
            /\ runs["intent_analysis"] = 1
            /\ runs["requirements_engineering"] <= runs["architecture_design"]
            /\ runs["architecture_design"] <= runs["implementation_planning"]
            /\ runs["implementation_planning"] = runs["quality_review"]
            /\ runs["quality_review"] = gate_evals + 1)

\* the gate is evaluated again after a retry from architecture_design that
\* left requirements alone
C21_Witness ==
    /\ pc = "should_refine"
    /\ gate_evals = 1
    /\ runs["requirements_engineering"] = 1
    /\ runs["architecture_design"] = 2
    /\ runs["implementation_planning"] = 2
    /\ runs["quality_review"] = 2

\* C22: a step at phase node n leaves the output slot of every other phase as
\* it was, the gate and the consolidation leave all five slots alone, and
\* plan_approved changes only in a quality_review step; so on a retry to T the
\* outputs of the phases before T stay what the first pass stored.
C22_PhaseWritesOwnSlot ==
    /\ [][\A n \in Phases : \A m \in Phases \ {n} :
            pc = n => SlotOf(m)' = SlotOf(m)]_vars
    /\ [][(pc \notin Phases) => slots' = slots]_vars
    /\ [][plan_approved' # plan_approved => pc = "quality_review"]_vars

\* the gate is reached again after a retry from architecture_design; the
\* sentinel that requirements_engineering stored on the first pass is still
\* there next to the re-written architecture
C22_Witness ==
    /\ pc = "should_refine"
    /\ gate_evals = 1
    /\ runs["requirements_engineering"] = 1
    /\ runs["architecture_design"] = 2
    /\ requirements.kind = "sentinel"
    /\ architecture.kind = "obj"

\* position of a phase in the chain START -> ... -> quality_review
ChainIndex(n) ==
    CASE n = "intent_analysis" -> 1
      [] n = "requirements_engineering" -> 2
      [] n = "architecture_design" -> 3
      [] n = "implementation_planning" -> 4
      [] n = "quality_review" -> 5

\* C23: before the first gate evaluation the phases run one at a time in the
\* order intent, requirements, architecture, implementation, quality review
\* (the phases before the current one have run once, the others not yet);
\* intent analysis never runs a second time; the gate is evaluated only on the
\* step that follows a completed quality review, whether it stored a decoded
\* review or a sentinel, and once for each such completion.
C23_FirstPassOrderAndGate ==
    /\ []((gate_evals = 0 /\ pc \in Phases) =>
            \A m \in Phases :
                runs[m] = IF ChainIndex(m) < ChainIndex(pc) THEN 1 ELSE 0)
    /\ [](runs["intent_analysis"] = IF pc = "intent_analysis" THEN 0 ELSE 1)
    /\ [][gate_evals' # gate_evals =>
            pc = "should_refine" /\ gate_evals' = gate_evals + 1]_vars
    /\ [][pc' = "should_refine" =>
            /\ pc = "quality_review"
            /\ runs' = [runs EXCEPT !["quality_review"] = @ + 1]
            /\ quality_review'.kind \in {"obj", "sentinel"}]_vars
    /\ [][pc = "should_refine" => gate_evals' = gate_evals + 1]_vars
    /\ [](pc = "should_refine" => runs["quality_review"] = gate_evals + 1)
    /\ [](pc \notin {"should_refine", "raised"} => runs["quality_review"] = gate_evals)

\* the gate has been evaluated on a review that is an error sentinel and has
\* sent the run back to architecture_design
C23_Witness ==
    /\ gate_evals = 1
    /\ quality_review.kind = "sentinel"
    /\ pc = "architecture_design"
    /\ runs["intent_analysis"] = 1

\* the issues of the stored review that the user prompt of phase n lists:
\* pipeline.py builds a feedback section in architecture_design_node only
\* (lines 194-208); the prompts of requirements_engineering_node (122-143) and
\* implementation_planning_node (290-315) are built from the summary of the
\* previous phase alone
PromptIssues(n, review, count) ==
    IF n = "architecture_design" THEN FeedbackIssues(review, count) ELSE << >>

\* C24 as stated: when the gate sends the run back to a phase, the prompt that
\* phase builds lists the issues of the review that caused the retry.
C24_RetryPromptHasFeedback ==
    [][(pc = "should_refine" /\ pc' \in ValidPhases) =>
          PromptIssues(pc', quality_review', iteration_count') = IssuesOf(quality_review')]_vars

\* C25 as stated: in every phase, a response that extract_and_parse_json
\* decodes is stored as the phase's decoded output, never as an error sentinel.
C25_AllPhasesUseParser ==
    [][\A n \in Phases :
          (pc = n /\ CallReturned /\ pc' # "raised"
              /\ extract_and_parse_json(response').ok)
          => SlotOf(n)' = extract_and_parse_json(response').val]_vars

\* C26 as stated: plan_approved is written once, going from None to its
\* final value when the review is gated, and does not change afterwards.
C26_Original ==
    [][plan_approved' # plan_approved =>
          /\ plan_approved = "None"
          /\ pc \in {"quality_review", "should_refine"}]_vars

\* C26 amended: plan_approved is written by every completed quality_review
\* step, not by the gate, so a run with retries writes it up to
\* MaxIterations + 1 times and it can go from False to True; it is None exactly
\* until the first review completes, it never returns to None, and once it is
\* True it stays True until the run ends, because the gate then goes to
\* consolidation.
C26_ApprovalWrittenByReview ==
    /\ [][plan_approved' # plan_approved =>
            /\ pc = "quality_review" /\ pc' = "should_refine"
            /\ plan_approved' \in {"True", "False"}]_vars
    /\ [][(pc = "quality_review" /\ pc' = "should_refine") =>
            plan_approved' = IF quality_review'.kind = "obj"
                                /\ quality_review'.approval_status = "approved"
                             THEN "True" ELSE "False"]_vars
    /\ [][plan_approved = "True" => plan_approved' = "True"]_vars
    /\ [](plan_approved = "None" <=>
            (gate_evals = 0 /\ pc # "should_refine"))
    /\ [](pc = "END" => final_plan.approved = plan_approved)

\* the second review approved a plan whose first review had been rejected
C26_Witness ==
    /\ pc = "END"
    /\ gate_evals = 2
    /\ iteration_count = 1
    /\ plan_approved = "True"

C28_FirstBlockReturned ==
    (shape = "multi" /\ parse_result.done) =>
        (Payload.ok /\ parse_result.ok /\ parse_result.val = Payload.val)

\* the three extraction strategies of extract_and_parse_json, in order
Strategies == 1 .. 3

\* C29: extract_and_parse_json raises its JSONDecodeError only when each of
\* the three strategies has failed on the text, and returns the value of the
\* first strategy that decodes otherwise; on an empty text, or one made of
\* blanks (bare, between tags or inside a fence), it raises and returns no
\* value, in particular no empty object.
C29_RaisesOnlyWhenAllFail ==
    parse_result.done =>
        /\ ~parse_result.ok <=> \A i \in Strategies : ~ExtractAttempt(text, i).ok
        /\ parse_result.ok =>
             \E i \in Strategies :
                /\ ExtractAttempt(text, i).ok
                /\ parse_result.val = ExtractAttempt(text, i).val
                /\ \A j \in 1 .. (i - 1) : ~ExtractAttempt(text, j).ok
        /\ shape = "blank" => (~parse_result.ok /\ parse_result.val = None)

\* the call on a text of blanks has raised
C29_Witness ==
    /\ shape = "blank"
    /\ text = <<"_", "_">>
    /\ parse_result.done
    /\ ~parse_result.ok

\* the final plan a finished call has stored is the projection of that call's
\* own state
OwnPlan(s) ==
    s.pc = "END" =>
        s.final_plan =
            [kind |-> "plan", task_id |-> s.task_id, user_request |-> s.user_request,
             intent |-> s.intent_analysis, requirements |-> s.requirements,
             architecture |-> s.architecture, implementation |-> s.implementation_plan,
             quality_review |-> s.quality_review, approved |-> s.plan_approved,
             iterations |-> s.iteration_count]

InErrors(msg) == \E i \in DOMAIN coder.errors : coder.errors[i] = msg

\* C31: without validated code the optimizer calls no language model and
\* leaves optimized_code None, so the final code is None; with validated code
\* it makes one call, and when that call raises it appends one optimization
\* error and falls back to the validated code, which is then the final code
\* of a result with success = True.
C31_OptimizerFallback ==
    /\ [][coder_pc = "code_optimizer" =>
            IF coder.validated_code \in {"None", ""}
            THEN /\ coder'.optimized_code = "None"
                 /\ coder'.llm_calls = coder.llm_calls
                 /\ coder'.errors = coder.errors
            ELSE /\ coder'.llm_calls = coder.llm_calls + 1
                 /\ coder'.errors # coder.errors =>
                      /\ coder'.errors = Append(coder.errors, "Optimization error")
                      /\ coder'.optimized_code = coder.validated_code]_vars
    /\ []((coder_pc = "END" /\ InErrors("Optimization error")) =>
            /\ coder.validated_code # "None"
            /\ coder.code = coder.validated_code
            /\ coder_result.success
            /\ coder_result.code = coder.validated_code)
    /\ []((coder_pc = "END" /\ coder.validated_code = "None") =>
            /\ coder.code = "None"
            /\ coder_result.code = "None")

\* generate_code has returned after an optimization call that raised
C31_Witness ==
    /\ coder_pc = "END"
    /\ InErrors("Optimization error")
    /\ coder_result.success
    /\ coder_result.code = "code"

\* C34: once input validation has failed, no node calls the language model
\* and no node records an error; the outputs keep their empty values through
\* consolidation, and generate_code returns success = False with code None.
C34_FailedValidationSkipsPhases ==
    /\ []((coder_pc # "input_validator" /\ ~coder.should_proceed) =>
            /\ coder.input_validation_errors # << >>
            /\ coder.llm_calls = 0
            /\ coder.edge_cases = "[]"
            /\ coder.cot_reasoning = ""
            /\ coder.raw_code = "None"
            /\ coder.validated_code = "None"
            /\ coder.optimized_code = "None"
            /\ coder.code = "None")
    /\ []((coder_pc = "END" /\ ~coder.should_proceed) =>
            /\ ~coder_result.success
            /\ coder_result.code = "None")
    /\ [](coder_pc # "input_validator" =>
            (coder.should_proceed <=> coder.input_validation_errors = << >>))

\* generate_code has returned for a malformed signature
C34_Witness ==
    /\ coder_pc = "END"
    /\ ~coder.should_proceed
    /\ coder.signature = "malformed"
    /\ ~coder_result.success

\* build_coder_graph: the node that follows each node of the linear pipeline
CoderChainNext(n) ==
    CASE n = "input_validator" -> "edge_case_analyzer"
      [] n = "edge_case_analyzer" -> "cot_generator"
      [] n = "cot_generator" -> "code_generator"
      [] n = "code_generator" -> "code_validator"
      [] n = "code_validator" -> "code_optimizer"
      [] n = "code_optimizer" -> "consolidation"
      [] n = "consolidation" -> "return"
      [] n = "return" -> "END"

\* the error a node records when its call of the language model raises, and
\* the value its output then takes
CallError(n) ==
    CASE n = "edge_case_analyzer" -> "Edge case analysis error"
      [] n = "cot_generator" -> "CoT generation error"
      [] n = "code_generator" -> "Code generation error"
      [] n = "code_optimizer" -> "Optimization error"
Fallback(n, state) ==
    CASE n = "edge_case_analyzer" -> state.edge_cases = "[]"
      [] n = "cot_generator" -> state.cot_reasoning = ""
      [] n = "code_generator" -> state.raw_code = "None"
      [] n = "code_optimizer" -> state.optimized_code = state.validated_code

\* C35: every step of the coder graph goes on to the next node of the chain,
\* whatever the language model did, so every node through consolidation runs
\* and generate_code returns; a node whose call raised has appended exactly
\* one error, the one of its phase, and its output has the fallback value.
C35_LlmFailureContained ==
    /\ [][coder_pc' = CoderChainNext(coder_pc)]_vars
    /\ [][\A n \in {"edge_case_analyzer", "cot_generator", "code_generator",
                    "code_optimizer"} :
            (coder_pc = n /\ coder'.llm_calls = coder.llm_calls + 1
                /\ coder'.errors = Append(coder.errors, CallError(n)))
            => Fallback(n, coder')]_vars
    /\ [][coder'.llm_calls # coder.llm_calls =>
            /\ coder'.llm_calls = coder.llm_calls + 1
            /\ Len(coder'.errors) <= Len(coder.errors) + 1
            /\ SubSeq(coder'.errors, 1, Len(coder.errors)) = coder.errors]_vars
    /\ [](coder_pc \in {"edge_case_analyzer", "cot_generator", "code_generator",
                        "code_validator", "code_optimizer", "consolidation",
                        "return", "END", "input_validator"})

\* three calls raised one after the other and generate_code still returned
C35_Witness ==
    /\ coder_pc = "END"
    /\ coder.errors = <<"Edge case analysis error", "CoT generation error",
                        "Code generation error">>
    /\ coder.llm_calls = 3
    /\ ~coder_result.success

(* --------------- refinement loop of the single-agent pipeline ---------- *)
\* A review is the text review_code returns, held as the sequence of its
\* sentences; `"Code is correct" in review` is a search through them.
Mentions(review, sentence) == \E i \in 1..Len(review) : review[i] = sentence

Reviews == {<<"Code is correct">>, <<"Looks fine.", "Code is correct">>,
            <<"Bug found">>, << >>}

\* largest refinement_count and max_refinements handed to
\* should_continue_refining, and largest refinement_count carried in the state
MaxRefinementCount == 4

\* a continuation test that never stops on a correct review
should_continue_refining_count_only(review, refinement_count, max_refinements) ==
    IF refinement_count >= max_refinements THEN FALSE ELSE TRUE

\* core/pipeline.py should_continue_refining
should_continue_refining(review, refinement_count, max_refinements) ==
    IF Mentions(review, "Code is correct") /\ refinement_count >= 1
    THEN FALSE
    ELSE IF refinement_count >= max_refinements THEN FALSE ELSE TRUE

InitShouldContinue ==
    /\ PlannerIdle /\ ParserIdle /\ CompressIdle /\ CallIdle /\ CoderIdle
    /\ GraphIdle /\ CriticIdle /\ DriverIdle
    /\ \E review \in Reviews, refinement_count \in 0..MaxRefinementCount,
          max_refinements \in 0..MaxRefinementCount :
         scr = [review |-> review, refinement_count |-> refinement_count,
                max_refinements |-> max_refinements, done |-> FALSE, result |-> FALSE]
    /\ refine_pc = "idle"
    /\ refine = None
    /\ refine_entry = None
    /\ refine_steps = 0

should_continue_refining_call ==
    /\ ~scr.done
    /\ scr' = [scr EXCEPT !.done = TRUE,
                          !.result = should_continue_refining(
                                         scr.review, scr.refinement_count,
                                         scr.max_refinements)]
    /\ UNCHANGED <<planner_vars, parser_vars, compress_vars, call_vars, coder_vars,
                   other_run, refine_pc, refine, refine_entry, refine_steps,
                   graph_vars, critic_vars, driver_vars>>

SpecShouldContinue == InitShouldContinue /\ [][should_continue_refining_call]_vars

\* core/pipeline.py refinement_node, line 134
max_refinements == 3

\* the state review_node hands to refinement_node
RefineStates ==
    [code : {"generated"}, review : Reviews,
     refinement_count : 0..MaxRefinementCount,
     exec_result : {"reviewed"}, quality_metrics : {"reviewed"}]

InitRefine ==
    /\ PlannerIdle /\ ParserIdle /\ CompressIdle /\ CallIdle /\ CoderIdle
    /\ GraphIdle /\ CriticIdle /\ DriverIdle
    /\ scr = None
    /\ refine_pc = "entry"
    /\ refine \in RefineStates
    /\ refine_entry = refine
    /\ refine_steps = 0

RefineStep(next, state, steps) ==
    /\ refine_pc' = next
    /\ refine' = state
    /\ refine_steps' = steps
    /\ UNCHANGED <<planner_vars, parser_vars, compress_vars, call_vars, coder_vars,
                   other_run, scr, refine_entry, graph_vars, critic_vars, driver_vars>>

\* refinement_node, lines 129-135: the early exit, and the loop variable read
\* from the state
refinement_node_entry ==
    /\ refine_pc = "entry"
    /\ IF Mentions(refine.review, "Code is correct")
       THEN RefineStep("returned", refine, refine_steps)
       ELSE RefineStep("loop", refine, refine_steps)

\* what refine_step gives: the code extract_python_code found, or None
RefinedCodes == {"refined", "None"}

\* refinement_node, lines 137-173: one pass of the while loop. refine_code or
\* review_code may raise, which leaves the node
refine_and_evaluate ==
    /\ refine_pc = "loop"
    /\ refine.refinement_count < max_refinements
    /\ \/ RefineStep("raised", refine, refine_steps)
       \/ \E refined_code \in RefinedCodes, review \in Reviews :
            LET refinement_count == refine.refinement_count + 1
                state == [refine EXCEPT !.code = refined_code,
                                        !.exec_result = "refined",
                                        !.review = review,
                                        !.refinement_count = refinement_count]
            IN  IF ~should_continue_refining(review, refinement_count, max_refinements)
                THEN RefineStep("returned", [state EXCEPT !.quality_metrics = "refined"],
                                refine_steps + 1)
                ELSE RefineStep("loop", state, refine_steps + 1)

\* refinement_node, lines 137 and 175-177: the loop condition fails
refinement_node_exit ==
    /\ refine_pc = "loop"
    /\ ~(refine.refinement_count < max_refinements)
    /\ RefineStep("returned", refine, refine_steps)

NextRefine ==
    \/ refinement_node_entry
    \/ refine_and_evaluate
    \/ refinement_node_exit

\* the node runs to its end once entered: nothing else is scheduled
SpecRefine == InitRefine /\ [][NextRefine]_vars /\ WF_vars(NextRefine)

\* C32: should_continue_refining returns False whenever the review contains
\* 'Code is correct' or refinement_count >= max_refinements, and True
\* otherwise, for every refinement_count >= 0.
C32_StopsOnCorrectOrCeiling ==
    scr.done =>
        (scr.result = ~(\/ Mentions(scr.review, "Code is correct")
                        \/ scr.refinement_count >= scr.max_refinements))

\* C38: refinement_node terminates; it makes at most 3 refine-and-evaluate
\* steps in total, the refinement_count it received counted in; it returns
\* after the first step whose review contains 'Code is correct'; and when the
\* review it received already contains 'Code is correct' it returns the state
\* as received.
C38_RefinementBounded ==
    /\ <>(refine_pc \in {"returned", "raised"})
    /\ [](/\ refine_steps <= max_refinements
          /\ refine_steps > 0 =>
                 refine_entry.refinement_count + refine_steps <= max_refinements
          /\ refine_steps > 0 =>
                 refine.refinement_count = refine_entry.refinement_count + refine_steps)
    /\ [][(refine_steps' = refine_steps + 1 /\ refine_pc' # "raised"
           /\ Mentions(refine'.review, "Code is correct"))
          => refine_pc' = "returned"]_vars
    /\ []((refine_pc = "returned" /\ Mentions(refine_entry.review, "Code is correct"))
          => (refine = refine_entry /\ refine_steps = 0))

\* three steps were made and the last review found the code correct
C38_Witness ==
    /\ refine_pc = "returned"
    /\ refine_steps = max_refinements
    /\ Mentions(refine.review, "Code is correct")
    /\ refine.quality_metrics = "refined"

(* ----------------------- legacy multi-agent graph ---------------------- *)
\* The state is a Python dict: a function from the keys it holds.
Get(state, key, default) == IF key \in DOMAIN state THEN state[key] ELSE default

Put(state, key, value) ==
    [k \in DOMAIN state \cup {key} |-> IF k = key THEN value ELSE state[k]]

\* largest max_iterations a caller of the legacy graph passes
MaxGraphIterations == 3

\* the dicts a caller can hand to the graph: max_iterations and iteration may be
\* left out, test_file may be left out or empty
GraphInputs ==
    LET Base == [signature |-> "def f():", docstring |-> "doc", model |-> "mistral"]
        WithFile == {Base, Put(Base, "test_file", ""), Put(Base, "test_file", "tests.py")}
        WithMax == WithFile \cup
                   {Put(s, "max_iterations", m) : s \in WithFile, m \in 0..MaxGraphIterations}
    IN  WithMax \cup {Put(s, "iteration", 0) : s \in WithMax}

InitGraph ==
    /\ PlannerIdle /\ ParserIdle /\ CompressIdle /\ CallIdle /\ CoderIdle
    /\ RefineIdle /\ CriticIdle /\ DriverIdle
    /\ graph_pc = "planner"
    /\ graph \in GraphInputs
    /\ coder_runs = 0
    /\ critic_runs = 0

GraphStep(next, state) ==
    /\ graph_pc' = next
    /\ graph' = state
    /\ UNCHANGED <<planner_vars, parser_vars, compress_vars, call_vars, coder_vars,
                   other_run, refine_vars, critic_vars, driver_vars>>

\* multi_agent/pipeline.py planner_node: plan_task returns a plan or raises
planner_node ==
    /\ graph_pc = "planner"
    /\ \/ GraphStep("raised", graph)
       \/ GraphStep("coder", Put(graph, "plan", "plan"))
    /\ UNCHANGED <<coder_runs, critic_runs>>

\* multi_agent/pipeline.py coder_node
coder_node ==
    /\ graph_pc = "coder"
    /\ coder_runs' = coder_runs + 1
    /\ \/ GraphStep("raised", graph)
       \/ GraphStep("eval", Put(graph, "code", "code"))
    /\ UNCHANGED critic_runs

\* what run_tests reports
ExecResults == {[passed |-> TRUE], [passed |-> FALSE]}

\* multi_agent/pipeline.py eval_node
eval_node ==
    /\ graph_pc = "eval"
    /\ IF Get(graph, "test_file", "") = ""
       THEN GraphStep("raised", graph)
       ELSE \E exec_result \in ExecResults :
              GraphStep("should_stop",
                        Put(Put(graph, "exec_result", exec_result),
                            "quality_metrics", "metrics"))
    /\ UNCHANGED <<coder_runs, critic_runs>>

\* a routing function without the ceiling
should_stop_no_ceiling(state) ==
    IF Get(state, "exec_result", [passed |-> FALSE]).passed THEN "END" ELSE "critic"

\* multi_agent/pipeline.py should_stop
should_stop(state) ==
    LET passed == Get(state, "exec_result", [passed |-> FALSE]).passed
        it == Get(state, "iteration", 0)
        max_it == Get(state, "max_iterations", 2)
    IN  IF passed THEN "END"
        ELSE IF it >= max_it THEN "END"
        ELSE "critic"

\* build_multi_agent_graph, lines 124-131: the conditional edge after eval
should_stop_edge ==
    /\ graph_pc = "should_stop"
    /\ GraphStep(should_stop(graph), graph)
    /\ UNCHANGED <<coder_runs, critic_runs>>

\* multi_agent/pipeline.py critic_node
critic_node ==
    /\ graph_pc = "critic"
    /\ critic_runs' = critic_runs + 1
    /\ \/ GraphStep("raised", graph)
       \/ GraphStep("inc_iter", Put(graph, "feedback", "feedback"))
    /\ UNCHANGED coder_runs

\* multi_agent/pipeline.py increment_iteration
increment_iteration ==
    /\ graph_pc = "inc_iter"
    /\ GraphStep("coder", Put(graph, "iteration", Get(graph, "iteration", 0) + 1))
    /\ UNCHANGED <<coder_runs, critic_runs>>

NextGraph ==
    \/ planner_node
    \/ coder_node
    \/ eval_node
    \/ should_stop_edge
    \/ critic_node
    \/ increment_iteration

\* graph.invoke runs the nodes one after another until END or an exception
SpecGraph == InitGraph /\ [][NextGraph]_vars /\ WF_vars(NextGraph)

\* C33: the legacy multi-agent graph terminates; after each eval it ends if the
\* tests passed or iteration >= max_iterations (2 when not given), otherwise
\* it runs critic, adds exactly 1 to iteration and returns to coder; the coder
\* runs at most max_iterations + 1 times, the critic at most max_iterations
\* times.
C33_LegacyGraphTerminates ==
    /\ <>(graph_pc \in {"END", "raised"})
    /\ [][graph_pc = "should_stop" =>
            graph_pc' = IF \/ graph["exec_result"].passed
                           \/ Get(graph, "iteration", 0) >= Get(graph, "max_iterations", 2)
                        THEN "END" ELSE "critic"]_vars
    /\ [][graph_pc = "critic" => graph_pc' \in {"inc_iter", "raised"}]_vars
    /\ [][graph_pc = "inc_iter" =>
            /\ graph_pc' = "coder"
            /\ graph'["iteration"] = Get(graph, "iteration", 0) + 1]_vars
    /\ [](/\ coder_runs <= Get(graph, "max_iterations", 2) + 1
          /\ critic_runs <= Get(graph, "max_iterations", 2))

\* the tests never passed and the run used every iteration it was given
C33_Witness ==
    /\ graph_pc = "END"
    /\ "max_iterations" \notin DOMAIN graph
    /\ ~graph["exec_result"].passed
    /\ coder_runs = 3
    /\ critic_runs = 2

(* ------------------------------ critic agent --------------------------- *)
\* critic/agent.py critique: the initial CriticAgentState
CriticInitialState(signature, plan, code, verbose) ==
    [task_id |-> "task_001", signature |-> signature, docstring |-> "doc",
     plan |-> plan, code |-> code, model |-> "deepseek", show_node_info |-> verbose,
     input_validation_errors |-> << >>, should_proceed |-> TRUE,
     correctness_analysis |-> "None", quality_analysis |-> "None", feedback |-> "None",
     llm_calls |-> 0]           \* calls of the language model so far (bookkeeping)

\* Python's truth value of an Optional[str]
Falsy(value) == value \in {"None", ""}

InitCritic ==
    /\ PlannerIdle /\ ParserIdle /\ CompressIdle /\ CallIdle /\ CoderIdle
    /\ RefineIdle /\ GraphIdle /\ DriverIdle
    /\ critic_pc = "input_validator"
    /\ \E signature \in {"", "def f():"}, plan \in {"", "plan"},
          code \in {"None", "", "code"}, verbose \in BOOLEAN :
         critic = CriticInitialState(signature, plan, code, verbose)
    /\ critique_result = None

CriticStep(next, state) ==
    /\ critic_pc' = next
    /\ critic' = state
    /\ UNCHANGED <<planner_vars, parser_vars, compress_vars, call_vars, coder_vars,
                   other_run, refine_vars, graph_vars, driver_vars, critique_result>>

\* critic/nodes/input_validator.py input_validator_node
critic_input_validator_node ==
    /\ critic_pc = "input_validator"
    /\ LET validation_errors ==
               (IF Falsy(critic.code) THEN <<"Code is required for critique">> ELSE << >>)
               \o (IF Falsy(critic.plan) THEN <<"Plan is required for critique">> ELSE << >>)
               \o (IF Falsy(critic.signature)
                   THEN <<"Signature is required for critique">> ELSE << >>)
       IN  CriticStep("correctness_analyzer",
                      [critic EXCEPT !.input_validation_errors = validation_errors,
                                     !.should_proceed = (Len(validation_errors) = 0)])

\* what a call of the language model by a critic node gives: an exception, a
\* text or an empty text
CriticLlmOutcomes == {"raises", "text", "empty"}

\* critic/nodes/correctness_analyzer.py correctness_analyzer_node: no handler
\* around the call
correctness_analyzer_node ==
    /\ critic_pc = "correctness_analyzer"
    /\ IF ~critic.should_proceed
       THEN CriticStep("quality_reviewer", critic)
       ELSE \E o \in CriticLlmOutcomes :
              CASE o = "raises" -> CriticStep("raised", Asked(critic))
                [] o = "empty" ->
                     CriticStep("quality_reviewer",
                                [Asked(critic) EXCEPT !.correctness_analysis = ""])
                [] OTHER ->
                     CriticStep("quality_reviewer",
                                [Asked(critic) EXCEPT !.correctness_analysis = "analysis"])

\* critic/nodes/quality_reviewer.py quality_reviewer_node
quality_reviewer_node ==
    /\ critic_pc = "quality_reviewer"
    /\ IF ~critic.should_proceed
       THEN CriticStep("feedback_synthesizer", critic)
       ELSE \E o \in CriticLlmOutcomes :
              CASE o = "raises" -> CriticStep("raised", Asked(critic))
                [] o = "empty" ->
                     CriticStep("feedback_synthesizer",
                                [Asked(critic) EXCEPT !.quality_analysis = ""])
                [] OTHER ->
                     CriticStep("feedback_synthesizer",
                                [Asked(critic) EXCEPT !.quality_analysis = "analysis"])

\* a synthesizer that does not look at should_proceed
feedback_synthesizer_node_ungated ==
    /\ critic_pc = "feedback_synthesizer"
    /\ IF Falsy(critic.correctness_analysis) \/ Falsy(critic.quality_analysis)
       THEN CriticStep("return", [critic EXCEPT !.feedback = "Error: Incomplete analysis."])
       ELSE \E o \in CriticLlmOutcomes :
              CASE o = "raises" -> CriticStep("raised", Asked(critic))
                [] o = "empty" ->
                     CriticStep("return", [Asked(critic) EXCEPT !.feedback = ""])
                [] OTHER ->
                     CriticStep("return", [Asked(critic) EXCEPT !.feedback = "feedback"])

\* critic/nodes/feedback_synthesizer.py feedback_synthesizer_node
feedback_synthesizer_node ==
    /\ critic_pc = "feedback_synthesizer"
    /\ IF ~critic.should_proceed
       THEN CriticStep("return", critic)
       ELSE IF Falsy(critic.correctness_analysis) \/ Falsy(critic.quality_analysis)
       THEN CriticStep("return", [critic EXCEPT !.feedback = "Error: Incomplete analysis."])
       ELSE \E o \in CriticLlmOutcomes :
              CASE o = "raises" -> CriticStep("raised", Asked(critic))
                [] o = "empty" ->
                     CriticStep("return", [Asked(critic) EXCEPT !.feedback = ""])
                [] OTHER ->
                     CriticStep("return", [Asked(critic) EXCEPT !.feedback = "feedback"])

\* critic/agent.py critique, lines 61-66: what the caller gets
critique_return ==
    /\ critic_pc \in {"return", "raised"}
    /\ critique_result' =
           IF critic_pc = "raised"
           THEN [raised |-> TRUE, value |-> "Critique generation failed"]
           ELSE [raised |-> FALSE,
                 value |-> IF Falsy(critic.feedback) THEN "Analysis failed."
                           ELSE critic.feedback]
    /\ critic_pc' = "END"
    /\ UNCHANGED <<planner_vars, parser_vars, compress_vars, call_vars, coder_vars,
                   other_run, refine_vars, graph_vars, driver_vars, critic>>

NextCritic ==
    \/ critic_input_validator_node
    \/ correctness_analyzer_node
    \/ quality_reviewer_node
    \/ feedback_synthesizer_node
    \/ critique_return

SpecCritic == InitCritic /\ [][NextCritic]_vars

\* the critique was asked for without code, plan or signature
CriticInputMissing ==
    Falsy(critic.code) \/ Falsy(critic.plan) \/ Falsy(critic.signature)

\* C36: in the critic pipeline, when code, plan or signature is missing,
\* should_proceed is False, no phase calls the language model, feedback stays
\* None, and critique returns 'Analysis failed.' without raising.
C36_MissingInputNoAnalysis ==
    (critic_pc # "input_validator" /\ CriticInputMissing) =>
        /\ ~critic.should_proceed
        /\ critic.llm_calls = 0
        /\ critic.feedback = "None"
        /\ critic_pc # "raised"
        /\ critic_pc = "END" =>
               critique_result = [raised |-> FALSE, value |-> "Analysis failed."]

\* a critique asked for without code has returned
C36_Witness ==
    /\ critic_pc = "END"
    /\ critic.code = "None"
    /\ critic.plan = "plan"
    /\ critic.input_validation_errors = <<"Code is required for critique">>
    /\ critique_result = [raised |-> FALSE, value |-> "Analysis failed."]

(* --------------------- coder-critic loop of the scripts ---------------- *)
\* largest --max-retries the loop is run with
MaxDriverRetries == 2

\* the code the coder returns at a given attempt
GeneratedCode(n) == "code" \o ToString(n)

\* what CoderAgent.generate_code gives the loop at a given attempt: a result
\* dict as GenerateCodeResult builds it (the code, an empty reply of the
\* optimizer, or no code), or a RuntimeError
GenerateCodeOutcomes(n) ==
    {[raised |-> FALSE, success |-> TRUE, code |-> GeneratedCode(n)],
     [raised |-> FALSE, success |-> TRUE, code |-> ""],
     [raised |-> FALSE, success |-> FALSE, code |-> "None"],
     [raised |-> TRUE, success |-> FALSE, code |-> "None"]}

\* scripts/batch_test.py run_task_multi_agent: the local variables after the
\* plan was made, lines 112-115
DriverInitialState(n) ==
    [max_retries |-> n, attempt |-> 0,
     current_code |-> "None", critic_feedback |-> "None", exec_summary |-> "None",
     generations |-> << >>,     \* what each generate_code call returned (bookkeeping)
     critic_calls |-> 0,        \* calls of critic.critique so far (bookkeeping)
     submitted |-> "None",      \* the code handed to run_tests_silent
     error |-> "None"]

InitDriver ==
    /\ PlannerIdle /\ ParserIdle /\ CompressIdle /\ CallIdle /\ CoderIdle
    /\ RefineIdle /\ GraphIdle /\ CriticIdle
    /\ driver_pc = "plan"
    /\ \E n \in 0..MaxDriverRetries : driver = DriverInitialState(n)

DriverStep(next, state) ==
    /\ driver_pc' = next
    /\ driver' = state
    /\ UNCHANGED <<planner_vars, parser_vars, compress_vars, call_vars, coder_vars,
                   other_run, refine_vars, graph_vars, critic_vars>>

\* run_task_multi_agent, lines 96-110: create_plan returns a plan, returns
\* nothing, or raises
create_plan_call ==
    /\ driver_pc = "plan"
    /\ \/ DriverStep("loop", driver)
       \/ DriverStep("END", [driver EXCEPT !.error = "Planning failed"])
       \/ DriverStep("END", [driver EXCEPT !.error = "exception"])

\* run_task_multi_agent, lines 118-132: the head of the for loop, the call of
\* generate_code and the test of its success
generate_code_call ==
    /\ driver_pc = "loop"
    /\ driver.attempt <= driver.max_retries
    /\ \E coder_outcome \in GenerateCodeOutcomes(driver.attempt) :
         LET called == [driver EXCEPT !.generations = Append(@, coder_outcome)]
         IN  CASE coder_outcome.raised ->
                    DriverStep("END", [called EXCEPT !.error = "exception"])
               [] ~coder_outcome.success -> DriverStep("final", called)
               [] OTHER ->
                    DriverStep("critique",
                               [called EXCEPT !.current_code = coder_outcome.code])

\* run_task_multi_agent, lines 135-148: execute_code, compute_quality_metrics
\* and critic.critique, any of which may raise, then the next attempt
critique_call ==
    /\ driver_pc = "critique"
    /\ \/ DriverStep("END", [driver EXCEPT !.error = "exception"])
       \/ DriverStep("END", [driver EXCEPT !.critic_calls = @ + 1,
                                           !.error = "exception"])
       \/ DriverStep("loop", [driver EXCEPT !.critic_calls = @ + 1,
                                            !.exec_summary = "summary",
                                            !.critic_feedback = "feedback",
                                            !.attempt = @ + 1])

\* run_task_multi_agent, line 118: range(max_retries + 1) is used up
loop_exhausted ==
    /\ driver_pc = "loop"
    /\ driver.attempt > driver.max_retries
    /\ DriverStep("final", driver)

\* run_task_multi_agent, lines 150-162: the final tests run on current_code if
\* it is neither None nor empty
final_testing ==
    /\ driver_pc = "final"
    /\ IF ~Falsy(driver.current_code)
       THEN DriverStep("END", [driver EXCEPT !.submitted = driver.current_code,
                                             !.error = "tests"])
       ELSE DriverStep("END", [driver EXCEPT !.error = "No code generated"])

NextDriver ==
    \/ create_plan_call
    \/ generate_code_call
    \/ critique_call
    \/ loop_exhausted
    \/ final_testing

SpecDriver == InitDriver /\ [][NextDriver]_vars

\* the generate_code calls so far that reported success
Successes == {i \in 1..Len(driver.generations) : driver.generations[i].success}

LastSuccess == CHOOSE i \in Successes : \A j \in Successes : j <= i

\* the loop is over and the function is about to test, or has tested
LoopDone == driver_pc = "final" \/ (driver_pc = "END" /\ driver.error \in {"tests", "No code generated"})

\* the coder is invoked at most max_retries + 1 times, the critic once after
\* each successful generation, and a failed generation is the last one
DriverLoopShape ==
    /\ Len(driver.generations) <= driver.max_retries + 1
    /\ \A i \in 1..Len(driver.generations) :
         ~driver.generations[i].success => i = Len(driver.generations)
    /\ driver.critic_calls <= Cardinality(Successes)
    /\ driver_pc = "loop" => driver.critic_calls = Cardinality(Successes)
    /\ LoopDone => driver.critic_calls = Cardinality(Successes)

\* C37: the coder-critic loop invokes the coder at most max_retries + 1 times,
\* invokes the critic exactly once after each successful generation, stops at
\* the first failed generation, and the code submitted to the final tests is
\* that of the most recent successful generation (no code, and 'No code
\* generated', if the first generation failed).
C37_DriverLoop ==
    /\ DriverLoopShape
    /\ (driver_pc = "END" /\ driver.error \in {"tests", "No code generated"}) =>
           IF Successes # {}
           THEN /\ driver.submitted = driver.generations[LastSuccess].code
                /\ driver.error = "tests"
           ELSE /\ driver.submitted = "None"
                /\ driver.error = "No code generated"

\* C39: for every input that is strictly valid JSON on its own (no tags, no
\* fence, no trailing comma), extract_and_parse_json returns the value strict
\* decoding of that input gives: the cleanup never alters a string literal.
C39_StrictJsonUnchanged ==
    (parse_result.done /\ text = payload_text /\ Payload.ok) =>
        (parse_result.ok /\ parse_result.val = Payload.val)

====
